---- MODULE Spec2Model ----
(***************************************************************************)
(* influx2prom: conversion of InfluxDB query results to the Prometheus     *)
(* text exposition format.                                                 *)
(*                                                                         *)
(* The program is a set of stateless functions.  A behaviour of the model  *)
(* is a sequence of calls: an action picks the arguments of one function,  *)
(* applies the function as the source computes it and records the outcome  *)
(* (a returned value or a raised error); Return hands the outcome to the   *)
(* caller.  Python strings are TLA+ strings, handled character by          *)
(* character with Len, SubSeq and \o.                                      *)
(***************************************************************************)
EXTENDS Integers, Sequences, FiniteSets, TLC

VARIABLES
    op,     \* the function that has been called, "idle" between calls
    env,    \* the interpreter and time zone the call runs under
    arg,    \* the argument of the call
    out     \* the outcome: [raised |-> error kind or "none", value |-> result]

vars == <<op, env, arg, out>>

\* the element of a one-element set; Only({ F(x) : x \in {v} }) is F(v) with v
\* computed once
Only(S) == CHOOSE r \in S : TRUE

(* Python string primitives *)

\* s[i] (1-based); the empty string past the end, as C reads the final NUL
At(s, i) == IF i >= 1 /\ i <= Len(s) THEN SubSeq(s, i, i) ELSE ""

StartsWith(s, p) == Len(s) >= Len(p) /\ SubSeq(s, 1, Len(p)) = p

Tail_(s, i) == SubSeq(s, i, Len(s))

RECURSIVE Replace(_, _, _)
\* str.replace(old, new) for a non-empty old: leftmost, non-overlapping
Replace(s, old, new) ==
    IF Len(s) < Len(old) THEN s
    ELSE IF StartsWith(s, old)
         THEN new \o Replace(Tail_(s, Len(old) + 1), old, new)
         ELSE At(s, 1) \o Replace(Tail_(s, 2), old, new)

RECURSIVE Join(_, _)
\* sep.join(parts)
Join(parts, sep) ==
    IF Len(parts) = 0 THEN ""
    ELSE IF Len(parts) = 1 THEN parts[1]
    ELSE parts[1] \o sep \o Join(Tail(parts), sep)

Digits == "0123456789"

IsDigit(c) == c \in {"0", "1", "2", "3", "4", "5", "6", "7", "8", "9"}

DigitVal(c) == (CHOOSE i \in 1..10 : At(Digits, i) = c) - 1

RECURSIVE AllDigits(_)
AllDigits(s) == Len(s) = 0 \/ (IsDigit(At(s, 1)) /\ AllDigits(Tail_(s, 2)))

RECURSIVE NatStr(_)
\* str(n) for a natural number n
NatStr(n) ==
    IF n < 10 THEN At(Digits, n + 1)
    ELSE NatStr(n \div 10) \o At(Digits, (n % 10) + 1)

RECURSIVE StripZeros(_)
\* the digits of int(s) for a string of digits s ("" for zero)
StripZeros(s) ==
    IF Len(s) > 0 /\ At(s, 1) = "0" THEN StripZeros(Tail_(s, 2)) ELSE s

Pad3(n) ==
    IF n < 10 THEN "00" \o NatStr(n)
    ELSE IF n < 100 THEN "0" \o NatStr(n)
    ELSE NatStr(n)

Raise(kind) == [raised |-> kind, value |-> ""]
Returns(v) == [raised |-> "none", value |-> v]


(* datetime.fromisoformat, as CPython implements it.  Interpreters from    *)
(* 3.11 on ("lenient") also read the basic format YYYYMMDD, a comma as     *)
(* decimal mark, fractions of any length and times without separators;     *)
(* 3.7 to 3.10 read only YYYY-MM-DD[*HH[:MM[:SS[.fff[fff]]]][+HH:MM...]].  *)
(* ISO week dates (YYYY-Www) are not modelled: no input holds a "W".       *)

RECURSIVE StrNat(_)
\* the value of a short string of digits
StrNat(s) ==
    IF Len(s) = 0 THEN 0
    ELSE StrNat(SubSeq(s, 1, Len(s) - 1)) * 10 + DigitVal(At(s, Len(s)))

\* parse_digits: the value of the n characters of s from p on, -1 unless all are digits
ParseDigits(s, p, n) ==
    IF n >= 1 /\ p + n - 1 <= Len(s) /\ AllDigits(SubSeq(s, p, p + n - 1))
    THEN StrNat(SubSeq(s, p, p + n - 1))
    ELSE -1

RECURSIVE SkipDigits(_, _)
SkipDigits(s, p) == IF IsDigit(At(s, p)) THEN SkipDigits(s, p + 1) ELSE p

Pow10(n) == CASE n = 0 -> 1 [] n = 1 -> 10 [] n = 2 -> 100 [] n = 3 -> 1000
              [] n = 4 -> 10000 [] n = 5 -> 100000 [] OTHER -> 1000000

\* the fractional part of parse_hh_mm_ss_ff: s[p..pEnd-1] are the digits
ParseFraction(s, p, pEnd, lenient, vals) ==
    LET remains == pEnd - p
        toParse == IF remains >= 6 THEN 6 ELSE remains
        frac    == ParseDigits(s, p, toParse)
    IN  IF ~lenient /\ remains \notin {3, 6} THEN [rv |-> -3, vals |-> vals, us |-> 0]
        ELSE IF frac < 0 THEN [rv |-> -3, vals |-> vals, us |-> 0]
        ELSE [rv   |-> IF At(s, SkipDigits(s, p + toParse)) # "" THEN 1 ELSE 0,
              vals |-> vals,
              us   |-> frac * Pow10(6 - toParse)]

RECURSIVE ParseHhMmSsFf(_, _, _, _, _, _, _)
\* parse_hh_mm_ss_ff: component i (0 hour, 1 minute, 2 second) starts at p;
\* rv < 0 is an error, 0 the end of the string, 1 more text behind
ParseHhMmSsFf(s, pEnd, lenient, i, p, vals, hasSep) ==
    Only({ IF d < 0 THEN [rv |-> -3, vals |-> vals, us |-> 0]
           ELSE
             LET vals2 == [vals EXCEPT ![i + 1] = d]
                 c     == At(s, p + 2)
                 p2    == p + 3
                 sep   == IF i = 0 THEN (IF lenient THEN c = ":" ELSE TRUE) ELSE hasSep
             IN  IF p2 >= pEnd THEN [rv |-> IF c # "" THEN 1 ELSE 0, vals |-> vals2, us |-> 0]
                 ELSE IF sep /\ c = ":"
                      THEN IF i < 2
                           THEN ParseHhMmSsFf(s, pEnd, lenient, i + 1, p2, vals2, sep)
                           ELSE ParseFraction(s, p2, pEnd, lenient, vals2)
                 ELSE IF c = "." \/ (lenient /\ c = ",")
                      THEN ParseFraction(s, p2, pEnd, lenient, vals2)
                 ELSE IF ~sep
                      THEN IF i < 2
                           THEN ParseHhMmSsFf(s, pEnd, lenient, i + 1, p2 - 1, vals2, sep)
                           ELSE ParseFraction(s, p2 - 1, pEnd, lenient, vals2)
                 ELSE [rv |-> -4, vals |-> vals2, us |-> 0]
           : d \in {ParseDigits(s, p, 2)} })

RECURSIVE FindTz(_, _, _)
\* the position of the first "+", "-" (or "Z") from p on, Len(s)+1 if none
FindTz(s, p, lenient) ==
    IF p > Len(s) THEN Len(s) + 1
    ELSE IF At(s, p) \in {"+", "-"} \/ (lenient /\ At(s, p) = "Z") THEN p
    ELSE FindTz(s, p + 1, lenient)

NoTime == [ok |-> TRUE, aware |-> FALSE, h |-> 0, mi |-> 0, sec |-> 0, us |-> 0,
           tzsec |-> 0, tzus |-> 0]
BadTime == [NoTime EXCEPT !.ok = FALSE]

\* the zone of parse_isoformat_time, read from behind the sign at tzpos and
\* added to the time fields base
ZoneOnto(s, tzpos, lenient, base) ==
    LET sign == IF At(s, tzpos) = "-" THEN -1 ELSE 1 IN
    Only({ IF z.rv # 0 THEN BadTime
           ELSE [base EXCEPT !.aware = TRUE,
                    !.tzsec = sign * (z.vals[1] * 3600 + z.vals[2] * 60 + z.vals[3]),
                    !.tzus = sign * z.us]
           : z \in {ParseHhMmSsFf(s, Len(s) + 1, lenient, 0, tzpos + 1, <<0, 0, 0>>, TRUE)} })

\* parse_isoformat_time on s[p..]
ParseIsoformatTime(s, p, lenient) ==
    LET tzpos == FindTz(s, p, lenient) IN
    Only({ LET base == [NoTime EXCEPT !.h = t.vals[1], !.mi = t.vals[2],
                                      !.sec = t.vals[3], !.us = t.us]
           IN  IF t.rv < 0 THEN BadTime
               ELSE IF tzpos > Len(s) THEN (IF t.rv = 1 THEN BadTime ELSE base)
               ELSE IF At(s, tzpos) = "Z"
                    THEN IF tzpos < Len(s) THEN BadTime ELSE [base EXCEPT !.aware = TRUE]
               ELSE ZoneOnto(s, tzpos, lenient, base)
           : t \in {ParseHhMmSsFf(s, tzpos, lenient, 0, p, <<0, 0, 0>>, TRUE)} })

IsLeap(y) == y % 4 = 0 /\ (y % 100 # 0 \/ y % 400 = 0)

DaysInMonth(y, m) ==
    IF m = 2 THEN (IF IsLeap(y) THEN 29 ELSE 28)
    ELSE IF m \in {4, 6, 9, 11} THEN 30 ELSE 31

DaysBeforeMonth(y, m) ==
    <<0, 31, 59, 90, 120, 151, 181, 212, 243, 273, 304, 334>>[m]
    + (IF m > 2 /\ IsLeap(y) THEN 1 ELSE 0)

\* ymd_to_ord less the ordinal of 1970-01-01: days since the epoch
EpochDays(y, m, d) ==
    (y - 1) * 365 + (y - 1) \div 4 - (y - 1) \div 100 + (y - 1) \div 400
    + DaysBeforeMonth(y, m) + d - 719163

\* the date part: [ok, y, m, d, next] with next the position behind the separator
ParseIsoformatDate(s, lenient) ==
    LET ext  == At(s, 5) = "-"
        y    == ParseDigits(s, 1, 4)
        m    == ParseDigits(s, IF ext THEN 6 ELSE 5, 2)
        d    == ParseDigits(s, IF ext THEN 9 ELSE 7, 2)
        len  == IF ext THEN 10 ELSE 8
        bad  == [ok |-> FALSE, y |-> 0, m |-> 0, d |-> 0, next |-> 0]
    IN  IF Len(s) < 7 \/ (~lenient /\ ~ext) THEN bad
        ELSE IF y < 0 \/ m < 0 \/ d < 0 \/ (ext /\ At(s, 8) # "-") THEN bad
        ELSE [ok |-> TRUE, y |-> y, m |-> m, d |-> d, next |-> len + 2]

\* datetime.fromisoformat(s): [ok, aware, s, us, tzsec, tzus] with s, us the
\* wall-clock fields counted from 1970-01-01T00:00:00 of the same clock
fromisoformat(s, lenient) ==
    LET dt  == ParseIsoformatDate(s, lenient)
        bad == [ok |-> FALSE, aware |-> FALSE, s |-> 0, us |-> 0, tzsec |-> 0, tzus |-> 0]
    IN  Only({ IF ~dt.ok \/ ~tm.ok THEN bad
               ELSE IF dt.y < 1 \/ dt.m < 1 \/ dt.m > 12 \/ dt.d < 1 THEN bad
               ELSE IF dt.d > DaysInMonth(dt.y, dt.m) THEN bad
               ELSE IF tm.h > 23 \/ tm.mi > 59 \/ tm.sec > 59 THEN bad
               ELSE IF tm.tzsec >= 86400 \/ tm.tzsec <= -86400 THEN bad
               ELSE [ok |-> TRUE, aware |-> tm.aware,
                     s  |-> EpochDays(dt.y, dt.m, dt.d) * 86400
                            + tm.h * 3600 + tm.mi * 60 + tm.sec,
                     us |-> tm.us, tzsec |-> tm.tzsec, tzus |-> tm.tzus]
               : tm \in {IF dt.ok /\ Len(s) >= dt.next - 1
                         THEN ParseIsoformatTime(s, dt.next, lenient) ELSE NoTime} })

(* format_timestamp *)

\* the interpreters and local time zones (seconds east of UTC) a call may run under
Envs == [lenient : BOOLEAN, utcoffset : {0, 3600}]
DefaultEnv == [lenient |-> FALSE, utcoffset |-> 0]

\* dt.timestamp(): seconds and microseconds since the epoch, 0 <= us < 10^6;
\* a naive datetime is read in the local zone
Timestamp(dt, e) ==
    LET sec == dt.s - (IF dt.aware THEN dt.tzsec ELSE e.utcoffset)
        us  == dt.us - dt.tzus
    IN  IF us < 0 THEN [s |-> sec - 1, us |-> us + 1000000]
        ELSE IF us >= 1000000 THEN [s |-> sec + 1, us |-> us - 1000000]
        ELSE [s |-> sec, us |-> us]

\* the decimal text of q * 1000 + r, negated if neg (0 <= r < 1000, q >= 0)
MsText(neg, q, r) ==
    IF q = 0 THEN (IF neg /\ r > 0 THEN "-" ELSE "") \o NatStr(r)
    ELSE (IF neg THEN "-" ELSE "") \o NatStr(q) \o Pad3(r)

\* str(int(t * 1000)) for t = ts.s + ts.us / 10^6: int() rounds towards zero
IntMillisText(ts) ==
    IF ts.s >= 0 THEN MsText(FALSE, ts.s, ts.us \div 1000)
    ELSE LET up == (ts.us + 999) \div 1000     \* microseconds rounded up to a millisecond
         IN  IF up = 0 THEN MsText(TRUE, -ts.s, 0)
             ELSE MsText(TRUE, -ts.s - 1, 1000 - up)

\* float(s) where s is an integer literal: [ok, neg, digits]; other text is
\* taken as not numeric
ParseFloat(s) ==
    LET signed == At(s, 1) \in {"+", "-"}
        body   == IF signed THEN Tail_(s, 2) ELSE s
    IN  [ok     |-> Len(body) > 0 /\ AllDigits(body),
         neg    |-> At(s, 1) = "-",
         digits |-> StripZeros(body)]

\* str(int(f * 1000))
SecondsToMillisText(f) ==
    IF f.digits = "" THEN "0"
    ELSE (IF f.neg THEN "-" ELSE "") \o f.digits \o "000"

\* the longest text still taken as epoch seconds
SecondsMaxLen == 12

format_timestamp(timestamp, e) ==
    Only({ IF dt.ok THEN Returns(IntMillisText(Timestamp(dt, e)))
           ELSE IF Len(timestamp) > SecondsMaxLen THEN Returns(timestamp)
           ELSE LET f == ParseFloat(timestamp)
                IN  IF f.ok THEN Returns(SecondsToMillisText(f)) ELSE Raise("ValueError")
           : dt \in {fromisoformat(Replace(timestamp, "Z", "+00:00"), e.lenient)} })

(* the timestamps the calls draw from *)

\* the longest run of digits drawn
MaxDigits == 14

RECURSIVE Rep(_, _)
Rep(c, n) == IF n = 0 THEN "" ELSE c \o Rep(c, n - 1)

\* calendar dates with their day number since 1970-01-01
Dates == { [text |-> "1969-12-31", days |-> -1],
           [text |-> "1970-01-01", days |-> 0],
           [text |-> "2023-01-01", days |-> 19358],
           [text |-> "2024-02-29", days |-> 19782] }

Clocks == { [text |-> "00:00:00", secs |-> 0],
            [text |-> "06:00:00", secs |-> 21600],
            [text |-> "07:00:00", secs |-> 25200],
            [text |-> "12:00:00", secs |-> 43200],
            [text |-> "23:59:59", secs |-> 86399] }

Fractions == { [text |-> "", us |-> 0],
               [text |-> ".500", us |-> 500000],
               [text |-> ".250000", us |-> 250000],
               [text |-> ".999500", us |-> 999500],
               [text |-> ".000250", us |-> 250] }

Zones == { [text |-> "Z", secs |-> 0],
           [text |-> "+00:00", secs |-> 0],
           [text |-> "+01:00", secs |-> 3600],
           [text |-> "-05:30", secs |-> -19800] }

\* an RFC3339 timestamp with the instant it denotes
Rfc3339Cases ==
    { [text |-> d.text \o "T" \o c.text \o f.text \o z.text,
       s    |-> d.days * 86400 + c.secs - z.secs,
       us   |-> f.us] : d \in Dates, c \in Clocks, f \in Fractions, z \in Zones }

DigitInputs ==
    { Rep("9", n) : n \in 1..MaxDigits } \cup { "1" \o Rep("0", n - 1) : n \in 1..MaxDigits }
    \cup { "0", "007", "1672574400", "1672574400000", "20230101", "20231301",
           "20230101012", "2023010112345" }

OtherInputs ==
    { "", "abc", "N/A", "12:00", "-5", "not-a-timestamp", "yesterday at noon",
      "2023-13-45T99:99:99Z", "2023-01-01T12:00:00", "2023-01-01", "2023-01-01 12:00:00Z",
      "2023-01-01T12:00:00.5Z", "2023-01-01T12:00:00,500Z", "2023-01-01T12:00Z" }

TimestampInputs == { c.text : c \in Rfc3339Cases } \cup DigitInputs \cup OtherInputs

(* parse_influxdb_csv and influx_to_prometheus.  The CSV text is taken as  *)
(* csv.reader yields it: a sequence of rows, each a sequence of cells, a   *)
(* blank line being the empty row.                                         *)

RECURSIVE FindHeaderAmongAll(_, _)
\* the first row from i on that is not blank, "#" rows included
FindHeaderAmongAll(rows, i) ==
    IF i > Len(rows) THEN 0
    ELSE IF rows[i] = <<>> THEN FindHeaderAmongAll(rows, i + 1)
    ELSE i

RECURSIVE FindHeader(_, _)
\* the position of the first row from i on that is neither blank nor a "#" row, 0 if none
FindHeader(rows, i) ==
    IF i > Len(rows) THEN 0
    ELSE IF rows[i] = <<>> THEN FindHeader(rows, i + 1)
    ELSE IF StartsWith(rows[i][1], "#") THEN FindHeader(rows, i + 1)
    ELSE i

\* the reserved columns taken at fixed positions, whatever the header says
HeaderIndexByPosition(headers, name) ==
    IF name = "_time" THEN 1
    ELSE IF name = "_measurement" THEN 2
    ELSE IF name = "_field" THEN 3
    ELSE 4

\* headers.index(name) if name in headers else None; positions count from 1, 0 is None
HeaderIndex(headers, name) ==
    IF \E i \in 1..Len(headers) : headers[i] = name
    THEN CHOOSE i \in 1..Len(headers) :
            headers[i] = name /\ \A j \in 1..(i - 1) : headers[j] # name
    ELSE 0

Max2(a, b) == IF a >= b THEN a ELSE b

\* d[k] = v on a dict kept as the sequence of its <<key, value>> items in insertion order
DictSet(d, k, v) ==
    IF \E j \in 1..Len(d) : d[j][1] = k
    THEN [j \in 1..Len(d) |-> IF d[j][1] = k THEN <<k, v>> ELSE d[j]]
    ELSE Append(d, <<k, v>>)

\* every column but the four reserved ones taken as a tag column
IsNotReserved(header) == header \notin {"_time", "_measurement", "_field", "_value"}

\* the header is a tag column
IsTagHeader(header) == ~StartsWith(header, "_")

RECURSIVE ExtractTags(_, _, _, _)
\* the loop over enumerate(headers) from position i on, tags being the dict so far
ExtractTags(headers, row, i, tags) ==
    IF i > Len(headers) THEN tags
    ELSE IF IsTagHeader(headers[i]) /\ i <= Len(row) /\ row[i] # ""
         THEN ExtractTags(headers, row, i + 1, DictSet(tags, headers[i], row[i]))
         ELSE ExtractTags(headers, row, i + 1, tags)

RECURSIVE ParseRowsFullWidth(_, _, _, _)
\* the loop over the data rows with every row shorter than the header skipped
ParseRowsFullWidth(rows, i, headers, idx) ==
    IF i > Len(rows) THEN <<>>
    ELSE LET row == rows[i] IN
         IF row = <<>> \/ Len(row) < Len(headers)
         THEN ParseRowsFullWidth(rows, i + 1, headers, idx)
         ELSE << [timestamp   |-> row[idx.time],
                  measurement |-> row[idx.measurement],
                  field       |-> row[idx.field],
                  value       |-> row[idx.value],
                  tags        |-> ExtractTags(headers, row, 1, <<>>)] >>
              \o ParseRowsFullWidth(rows, i + 1, headers, idx)

RECURSIVE ParseRows(_, _, _, _)
\* the loop over the data rows, from row i on
ParseRows(rows, i, headers, idx) ==
    IF i > Len(rows) THEN <<>>
    ELSE LET row == rows[i] IN
         IF row = <<>> \/ Len(row) < Max2(Max2(idx.time, idx.measurement),
                                          Max2(idx.field, idx.value))
         THEN ParseRows(rows, i + 1, headers, idx)
         ELSE << [timestamp   |-> row[idx.time],
                  measurement |-> row[idx.measurement],
                  field       |-> row[idx.field],
                  value       |-> row[idx.value],
                  tags        |-> ExtractTags(headers, row, 1, <<>>)] >>
              \o ParseRows(rows, i + 1, headers, idx)

\* parse_influxdb_csv once the header row is found at position h
ParseBelowHeader(rows, h) ==
    LET headers == rows[h]
        idx == [time        |-> HeaderIndex(headers, "_time"),
                measurement |-> HeaderIndex(headers, "_measurement"),
                field       |-> HeaderIndex(headers, "_field"),
                value       |-> HeaderIndex(headers, "_value")]
    IN  IF 0 \in {idx.time, idx.measurement, idx.field, idx.value}
        THEN Raise("MissingColumn")
        ELSE Returns(ParseRows(rows, h + 1, headers, idx))

parse_influxdb_csv(rows) ==
    LET h == FindHeader(rows, 1) IN
    IF h = 0 THEN Raise("MissingHeader") ELSE ParseBelowHeader(rows, h)

\* the text of one label: k="v"
LegacyLabel(item) == item[1] \o "=\"" \o item[2] \o "\""

\* the line of one parsed record, given its timestamp in milliseconds
PromLine(item, timestamp) ==
    LET labels == [j \in 1..Len(item.tags) |-> LegacyLabel(item.tags[j])]
        labels_str == IF Len(labels) > 0 THEN "{" \o Join(labels, ",") \o "}" ELSE ""
    IN  item.measurement \o "_" \o item.field \o labels_str
        \o " " \o item.value \o " " \o timestamp

RECURSIVE PromLines(_, _, _, _)
\* the loop over parsed_data from item i on, prometheus_lines being lines so far:
\* all the lines, or the error that ends the loop
PromLines(parsed, i, e, lines) ==
    IF i > Len(parsed) THEN Returns(lines)
    ELSE Only({ IF ts.raised # "none" THEN Raise(ts.raised)
                ELSE PromLines(parsed, i + 1, e, Append(lines, PromLine(parsed[i], ts.value)))
                : ts \in {format_timestamp(parsed[i].timestamp, e)} })

influx_to_prometheus(rows, e) ==
    Only({ IF parsed.raised # "none" THEN parsed
           ELSE Only({ IF lines.raised # "none" THEN lines
                       ELSE Returns(Join(lines.value, "\n"))
                       : lines \in {PromLines(parsed.value, 1, e, <<>>)} })
           : parsed \in {parse_influxdb_csv(rows)} })

(* the CSV inputs the calls draw from *)

\* the most data rows drawn behind a header
MaxRows == 2

TestHeader ==
    <<"", "result", "table", "_start", "_stop", "_time", "_value", "_field",
      "_measurement", "host">>
TestRow1 ==
    <<"", "", "0", "2023-01-01T00:00:00Z", "2023-01-01T12:00:00Z",
      "2023-01-01T06:00:00Z", "90.5", "usage_user", "cpu", "server01">>
TestRow2 ==
    <<"", "", "0", "2023-01-01T00:00:00Z", "2023-01-01T12:00:00Z",
      "2023-01-01T07:00:00Z", "91.2", "usage_system", "cpu", "server01">>

\* the query-result CSV of test_influx_to_prometheus
TestCsv ==
    << <<"#group", "false", "false", "true", "true", "false", "false", "true", "true", "true">>,
       <<"#datatype", "string", "long", "dateTime:RFC3339", "dateTime:RFC3339",
         "dateTime:RFC3339", "double", "string", "string", "string">>,
       <<"#default", "_result", "", "", "", "", "", "", "", "", "">>,
       TestHeader, TestRow1, TestRow2 >>

ReservedColumns == {"_time", "_measurement", "_field", "_value"}

FullHeader == <<"_time", "_measurement", "_field", "_value", "host", "_start">>

\* FullHeader without the reserved columns in drop
HeaderWithout(drop) == SelectSeq(FullHeader, LAMBDA h : h \notin drop)

Headers ==
    { HeaderWithout(drop) : drop \in SUBSET ReservedColumns }
    \cup { TestHeader,
           <<"host", "_value", "_field", "_measurement", "_time", "region">>,
           <<"_time", "_measurement", "_field", "_value", "host", "host">>,
           <<"table", "_stop", "_time", "_value", "_field", "_measurement">>,
           <<"_time", "_measurement", "_field", "_value", "_value", "host">>,
           <<"_time", "_measurement", "_field", "_value", "host", "#note">> }

Preambles ==
    { <<>>, << <<>> >>, << <<"#datatype", "string">>, <<>>, <<"#group">> >> }

DataRows ==
    { TestRow1, TestRow2,
      <<"2023-01-01T06:00:00Z", "cpu", "usage_user", "90.5", "server01", "2023-01-01T00:00:00Z">>,
      <<"server01", "91.2", "usage_system", "cpu", "1672574400", "">>,
      <<"0", "", "not-a-timestamp", "7", "idle", "cpu">>,
      <<"1672574400", "mem", "used">>,
      <<"1672574400", "mem", "used", "42", "server02">>,
      <<"#comment", "a", "b", "c", "d", "e">>,
      <<>> }

RowSeqs(n) == UNION { [1..k -> DataRows] : k \in 0..n }

CsvInputs ==
    { p \o <<h>> \o d : p \in Preambles, h \in Headers, d \in RowSeqs(MaxRows) }
    \cup { p \o d : p \in Preambles, d \in { r \in RowSeqs(1) : \A i \in 1..Len(r) :
                                                r[i] = <<>> \/ StartsWith(r[i][1], "#") } }
    \cup { TestCsv }

(* format_metrics.  A PrometheusMetric is a record; its labels dict is the  *)
(* sequence of its <<key, value>> items in insertion order, an absent      *)
(* timestamp (None) is <<>> and a present one <<t>>, t the decimal text of  *)
(* the int, an absent help text (None) is "", and its float value counts   *)
(* tenths.                                                                  *)

\* the ASCII characters 32 to 95 and 97 to 126
PrintableLow == " !\"#$%&'()*+,-./0123456789:;<=>?@ABCDEFGHIJKLMNOPQRSTUVWXYZ[\\]^_"
PrintableHigh == "abcdefghijklmnopqrstuvwxyz{|}~"

\* ord(c) for a newline or a printable ASCII character
Ord(c) ==
    IF c = "\n" THEN 10
    ELSE IF \E i \in 1..Len(PrintableLow) : At(PrintableLow, i) = c
         THEN 31 + (CHOOSE i \in 1..Len(PrintableLow) : At(PrintableLow, i) = c)
         ELSE 96 + (CHOOSE i \in 1..Len(PrintableHigh) : At(PrintableHigh, i) = c)

RECURSIVE StrLess(_, _)
\* a < b on strings: by code point, a proper prefix first
StrLess(a, b) ==
    IF Len(b) = 0 THEN FALSE
    ELSE IF Len(a) = 0 THEN TRUE
    ELSE IF At(a, 1) = At(b, 1) THEN StrLess(Tail_(a, 2), Tail_(b, 2))
    ELSE Ord(At(a, 1)) < Ord(At(b, 1))

\* a < b on (key, value) tuples
ItemLess(a, b) == StrLess(a[1], b[1]) \/ (a[1] = b[1] /\ StrLess(a[2], b[2]))

RECURSIVE Sorted(_)
\* sorted(items): the smallest item first, then the others sorted
Sorted(items) ==
    IF Len(items) <= 1 THEN items
    ELSE LET least == CHOOSE i \in 1..Len(items) :
                         \A j \in 1..Len(items) :
                            j # i => (ItemLess(items[i], items[j])
                                      \/ (items[i] = items[j] /\ i < j))
         IN  <<items[least]>>
             \o Sorted([j \in 1..(Len(items) - 1) |->
                          IF j < least THEN items[j] ELSE items[j + 1]])

\* the escapes applied quote first, so that the backslash of \" is escaped again
EscapeQuoteFirst(v) ==
    Replace(Replace(Replace(v, "\"", "\\\""), "\\", "\\\\"), "\n", "\\n")

\* the label value with backslash, double quote and newline escaped, in this order
EscapeLabelValue(v) ==
    Replace(Replace(Replace(v, "\\", "\\\\"), "\"", "\\\""), "\n", "\\n")

LabelPart(item) == item[1] \o "=\"" \o EscapeLabelValue(item[2]) \o "\""

\* the labels of a sample line
LabelsStr(labels) ==
    IF Len(labels) = 0 THEN ""
    ELSE LET sorted == Sorted(labels)
         IN  "{" \o Join([j \in 1..Len(sorted) |-> LabelPart(sorted[j])], ",") \o "}"

\* repr of a float given in tenths
FloatText(tenths) == NatStr(tenths \div 10) \o "." \o NatStr(tenths % 10)

\* repr of a float given in tenths
FloatRepr(tenths) ==
    IF tenths < 0 THEN "-" \o FloatText(-tenths) ELSE FloatText(tenths)

\* the line of one sample
SampleLine(metric) ==
    IF metric.timestamp # <<>>
    THEN metric.name \o LabelsStr(metric.labels) \o " " \o FloatRepr(metric.value)
         \o " " \o metric.timestamp[1]
    ELSE metric.name \o LabelsStr(metric.labels) \o " " \o FloatRepr(metric.value)

\* grouping by name alone
GroupKeyNameOnly(metric) == metric.name

\* the key under which a metric is grouped
GroupKey(metric) == metric.name \o ":" \o metric.type

RECURSIVE GroupMetrics(_, _, _)
\* the grouping loop from metric i on; groups is the dict so far, as its
\* <<key, list of metrics>> items in insertion order
GroupMetrics(metrics, i, groups) ==
    IF i > Len(metrics) THEN groups
    ELSE LET key == GroupKey(metrics[i])
             g   == IF \E j \in 1..Len(groups) : groups[j][1] = key
                    THEN groups
                    ELSE Append(groups, <<key, <<>>>>)
         IN  GroupMetrics(metrics, i + 1,
                 [j \in 1..Len(g) |->
                     IF g[j][1] = key THEN <<key, Append(g[j][2], metrics[i])>> ELSE g[j]])

\* the lines of one group without the closing empty line
GroupLinesOpen(group) ==
    LET first_metric == group[1] IN
    (IF first_metric.help # ""
     THEN <<"# HELP " \o first_metric.name \o " " \o first_metric.help>> ELSE <<>>)
    \o <<"# TYPE " \o first_metric.name \o " " \o first_metric.type>>
    \o [j \in 1..Len(group) |-> SampleLine(group[j])]

\* the lines of one group: HELP if the first metric has help text, TYPE, the
\* samples, and the empty line that closes the group
GroupLines(group) ==
    LET first_metric == group[1] IN
    (IF first_metric.help # ""
     THEN <<"# HELP " \o first_metric.name \o " " \o first_metric.help>> ELSE <<>>)
    \o <<"# TYPE " \o first_metric.name \o " " \o first_metric.type>>
    \o [j \in 1..Len(group) |-> SampleLine(group[j])]
    \o <<"">>

RECURSIVE AllGroupLines(_, _)
AllGroupLines(groups, i) ==
    IF i > Len(groups) THEN <<>>
    ELSE GroupLines(groups[i][2]) \o AllGroupLines(groups, i + 1)

format_metrics(metrics) ==
    IF Len(metrics) = 0 THEN Returns("")
    ELSE Returns(Join(AllGroupLines(GroupMetrics(metrics, 1, <<>>), 1), "\n"))

(* convert_data.  A value found in a record is [t, n, s]: t the name of its *)
(* Python type, n its number (a float counts tenths) and s its text; a      *)
(* record is the sequence of its <<column, value>> items.  The three        *)
(* ValueError of convert_data are told apart by the names InvalidMetricType,*)
(* MissingValueColumn and InvalidValue.                                     *)

Py(t, n, s) == [t |-> t, n |-> n, s |-> s]

PyNone == Py("NoneType", 0, "")

PyInt(n) == Py("int", n, "")

\* the int 10 ** n of an n beyond the range of float
PyHugeInt(n) == Py("int", n, "e")

PyBool(b) == Py("bool", IF b THEN 1 ELSE 0, "")

PyFloat(tenths) == Py("float", tenths, "")

PyNan == Py("float", 0, "nan")

PyInf == Py("float", 0, "inf")

PyStr(s) == Py("str", 0, s)

\* the empty list []
PyList == Py("list", 0, "")

\* key in record
DictHas(record, key) == \E j \in 1..Len(record) : record[j][1] = key

\* record[key]
DictGet(record, key) == record[CHOOSE j \in 1..Len(record) : record[j][1] = key][2]

\* str(n) for an int n
IntStr(n) == IF n < 0 THEN "-" \o NatStr(-n) ELSE NatStr(n)

RECURSIVE Strip(_)
\* s.strip() for the blank " "
Strip(s) ==
    IF Len(s) > 0 /\ At(s, 1) = " " THEN Strip(Tail_(s, 2))
    ELSE IF Len(s) > 0 /\ At(s, Len(s)) = " " THEN Strip(SubSeq(s, 1, Len(s) - 1))
    ELSE s

\* float(s) for a text s: the decimal literals with at most one digit behind
\* the point, blanks around them allowed, are read; the other texts the
\* records hold here are no float literals
FloatOfText(s) ==
    LET t      == Strip(s)
        signed == At(t, 1) \in {"+", "-"}
        body   == IF signed THEN Tail_(t, 2) ELSE t
        whole  == SubSeq(body, 1, SkipDigits(body, 1) - 1)
        rest   == Tail_(body, Len(whole) + 1)
        ok     == /\ Len(whole) > 0
                  /\ \/ rest \in {"", "."}
                     \/ Len(rest) = 2 /\ At(rest, 1) = "." /\ IsDigit(At(rest, 2))
        tenths == StrNat(whole) * 10 + (IF Len(rest) = 2 THEN DigitVal(At(rest, 2)) ELSE 0)
    IN  IF ~ok THEN Raise("ValueError")
        ELSE Returns(IF At(t, 1) = "-" THEN -tenths ELSE tenths)

\* float(v): the tenths of the float, or the error raised; a float is finite here
FloatOf(v) ==
    IF v.t = "str" THEN FloatOfText(v.s)
    ELSE IF v.t = "int" THEN (IF v.s = "e" THEN Raise("OverflowError") ELSE Returns(v.n * 10))
    ELSE IF v.t = "bool" THEN Returns(v.n * 10)
    ELSE IF v.t = "float" THEN Returns(v.n)
    ELSE Raise("TypeError")

\* str(v)
StrOf(v) ==
    IF v.t = "str" THEN v.s
    ELSE IF v.t = "NoneType" THEN "None"
    ELSE IF v.t = "int" THEN (IF v.s = "e" THEN "1" \o Rep("0", v.n) ELSE IntStr(v.n))
    ELSE IF v.t = "bool" THEN (IF v.n = 1 THEN "True" ELSE "False")
    ELSE IF v.t = "float" THEN (IF v.s # "" THEN v.s ELSE FloatRepr(v.n))
    ELSE "[]"

\* int(v) for an int, bool or float v, as the decimal text of the int: a
\* float is cut towards zero, NaN and infinity have no int
IntOf(v) ==
    IF v.t = "float" /\ v.s = "nan" THEN Raise("ValueError")
    ELSE IF v.t = "float" /\ v.s = "inf" THEN Raise("OverflowError")
    ELSE IF v.t = "float" THEN Returns(IF v.n < 0 THEN IntStr(-((-v.n) \div 10))
                                       ELSE IntStr(v.n \div 10))
    ELSE IF v.t = "bool" THEN Returns(IntStr(v.n))
    ELSE Returns(StrOf(v))

VALID_TYPES == {"counter", "gauge", "histogram", "summary"}

\* PrometheusMetric(name, value, metric_type, labels, help_text, timestamp)
PrometheusMetric(name, value, metric_type, labels, help_text, timestamp) ==
    [name |-> name, type |-> metric_type, help |-> help_text, value |-> value,
     labels |-> labels, timestamp |-> timestamp]

RECURSIVE ExtractLabelsWithNull(_, _, _, _)
\* the loop over label_columns that takes a null for a value like any other
ExtractLabelsWithNull(record, label_columns, i, labels) ==
    IF i > Len(label_columns) THEN labels
    ELSE IF DictHas(record, label_columns[i])
         THEN ExtractLabelsWithNull(record, label_columns, i + 1,
                  DictSet(labels, label_columns[i], StrOf(DictGet(record, label_columns[i]))))
         ELSE ExtractLabelsWithNull(record, label_columns, i + 1, labels)

RECURSIVE ExtractLabels(_, _, _, _)
\* the loop over label_columns from position i on, labels being the dict so far
ExtractLabels(record, label_columns, i, labels) ==
    IF i > Len(label_columns) THEN labels
    ELSE IF DictHas(record, label_columns[i])
            /\ DictGet(record, label_columns[i]) # PyNone
         THEN ExtractLabels(record, label_columns, i + 1,
                  DictSet(labels, label_columns[i], StrOf(DictGet(record, label_columns[i]))))
         ELSE ExtractLabels(record, label_columns, i + 1, labels)

\* the timestamp of a non-null timestamp_value: <<>> for None
TimestampOfValue(timestamp_value, e) ==
    IF timestamp_value.t \in {"int", "float", "bool"}
    THEN Only({ IF n.raised # "none" THEN n ELSE Returns(<<n.value>>)
                : n \in {IntOf(timestamp_value)} })
    ELSE Only({ IF dt.ok THEN Returns(<<IntMillisText(Timestamp(dt, e))>>)
                ELSE Returns(<<>>)
                : dt \in {fromisoformat(Replace(StrOf(timestamp_value), "Z", "+00:00"),
                                        e.lenient)} })

\* the timestamp of a record; "" is no timestamp_column
ExtractTimestamp(record, timestamp_column, e) ==
    IF timestamp_column # "" /\ DictHas(record, timestamp_column)
    THEN IF DictGet(record, timestamp_column) # PyNone
         THEN TimestampOfValue(DictGet(record, timestamp_column), e)
         ELSE Returns(<<>>)
    ELSE Returns(<<>>)

\* the body of the loop for one record: the metric, or the error raised
ConvertRecord(record, a, e) ==
    IF ~DictHas(record, a.value_column) THEN Raise("MissingValueColumn")
    ELSE Only({ IF value.raised \in {"ValueError", "TypeError"} THEN Raise("InvalidValue")
                ELSE IF value.raised # "none" THEN value
                ELSE Only({ IF timestamp.raised # "none" THEN timestamp
                            ELSE Returns(PrometheusMetric(
                                     a.metric_name, value.value, a.metric_type,
                                     ExtractLabels(record, a.label_columns, 1, <<>>),
                                     a.help_text, timestamp.value))
                            : timestamp \in {ExtractTimestamp(record, a.timestamp_column, e)} })
                : value \in {FloatOf(DictGet(record, a.value_column))} })

RECURSIVE ConvertRecords(_, _, _, _)
\* the loop over data from record i on, metrics being the list so far
ConvertRecords(a, i, e, metrics) ==
    IF i > Len(a.data) THEN Returns(metrics)
    ELSE Only({ IF metric.raised # "none" THEN metric
                ELSE ConvertRecords(a, i + 1, e, Append(metrics, metric.value))
                : metric \in {ConvertRecord(a.data[i], a, e)} })

\* convert_data with the arguments a; an absent label_columns is <<>>, an
\* absent help_text or timestamp_column is ""
convert_data(a, e) ==
    IF a.metric_type \notin VALID_TYPES THEN Raise("InvalidMetricType")
    ELSE ConvertRecords(a, 1, e, <<>>)

\* the convert command behind the parsing of its data: convert_data, then
\* format_metrics
convert(a, e) ==
    Only({ IF metrics.raised # "none" THEN metrics ELSE format_metrics(metrics.value)
           : metrics \in {convert_data(a, e)} })

(* The query translator.  The regular expressions of influx2promql.py are   *)
(* matched as re matches them: the leftmost match, greedy, with the          *)
(* backtracking that can change a group.  White space is the blank.          *)

\* the first position from from on where lit occurs in s, 0 if there is none
Find(s, lit, from) ==
    LET at == {i \in from..(Len(s) - Len(lit) + 1) : SubSeq(s, i, i + Len(lit) - 1) = lit}
    IN  IF at = {} THEN 0 ELSE CHOOSE i \in at : \A j \in at : i <= j

\* lit in s
Contains(s, lit) == Find(s, lit, 1) > 0

\* lit occurs in s at position i
LitAt(s, i, lit) ==
    i >= 1 /\ i + Len(lit) - 1 <= Len(s) /\ SubSeq(s, i, i + Len(lit) - 1) = lit

RECURSIVE SkipWs(_, _)
\* the position behind the blanks that start at p
SkipWs(s, p) == IF At(s, p) = " " THEN SkipWs(s, p + 1) ELSE p

RECURSIVE RunEnd(_, _, _)
\* the position behind the characters from p on that are not in stop
RunEnd(s, p, stop) ==
    IF p > Len(s) \/ At(s, p) \in stop THEN p ELSE RunEnd(s, p + 1, stop)

NoMatch == [ok |-> FALSE, g1 |-> "", g2 |-> "", end |-> 0]

Match(g1, g2, end) == [ok |-> TRUE, g1 |-> g1, g2 |-> g2, end |-> end]

\* the least position of the set at, as the match of matchAt there
Leftmost(at) == CHOOSE i \in at : \A j \in at : i <= j

\* \s*==\s*"([^"]+)" matched at p: g1 the text between the quotes, end the
\* position behind the closing quote
EqualsQuotedAt(s, p) ==
    LET eq    == SkipWs(s, p)
        open  == SkipWs(s, eq + 2)
        close == Find(s, "\"", open + 1)
    IN  IF LitAt(s, eq, "==") /\ At(s, open) = "\"" /\ close > open + 1
        THEN Match(SubSeq(s, open + 1, close - 1), "", close + 1)
        ELSE NoMatch

\* name\s*==\s*"([^"]+)" searched in s, for measurement_pattern and field_pattern
SearchEquals(s, name) ==
    LET at == {i \in 1..Len(s) : LitAt(s, i, name) /\ EqualsQuotedAt(s, i + Len(name)).ok}
    IN  IF at = {} THEN NoMatch ELSE EqualsQuotedAt(s, Leftmost(at) + Len(name))

\* range_pattern matched at i: g1 is the start, and a blank when only blanks
\* stand behind "start:"
RangeAt(s, i) ==
    LET p1   == i + Len("range(start:")
        p2   == SkipWs(s, p1)
        e1   == RunEnd(s, p2, {",", ")"})
        g1   == IF e1 > p2 THEN SubSeq(s, p2, e1 - 1) ELSE " "
        stop == SkipWs(s, e1 + 1)
        q1   == stop + Len("stop:")
        e2   == RunEnd(s, SkipWs(s, q1), {",", ")"})
    IN  IF ~LitAt(s, i, "range(start:") \/ e1 = p1 THEN NoMatch
        ELSE IF At(s, e1) = "," /\ LitAt(s, stop, "stop:") /\ e2 > q1 /\ At(s, e2) = ")"
             THEN Match(g1, SubSeq(s, SkipWs(s, q1), e2 - 1), e2 + 1)
        ELSE IF At(s, e1) = ")" THEN Match(g1, "", e1 + 1)
        ELSE NoMatch

\* re.search(range_pattern, s)
SearchRange(s) ==
    LET at == {i \in 1..Len(s) : RangeAt(s, i).ok}
    IN  IF at = {} THEN NoMatch ELSE RangeAt(s, Leftmost(at))

\* filter_pattern matched at i: g1 the tag, the longest text without a blank
\* behind "r." that lets the rest match, g2 the value
FilterAt(s, i) ==
    LET fn    == SkipWs(s, i + Len("filter(fn:"))
        arrow == SkipWs(s, fn + Len("(r)"))
        r     == SkipWs(s, arrow + Len("=>"))
        t0    == r + Len("r.")
        t1    == RunEnd(s, t0, {" "})
        ks    == {k \in (t0 + 1)..t1 :
                     EqualsQuotedAt(s, k).ok /\ At(s, EqualsQuotedAt(s, k).end) = ")"}
    IN  IF /\ LitAt(s, i, "filter(fn:") /\ LitAt(s, fn, "(r)")
           /\ LitAt(s, arrow, "=>") /\ LitAt(s, r, "r.") /\ ks # {}
        THEN Only({ Match(SubSeq(s, t0, k - 1), EqualsQuotedAt(s, k).g1,
                          EqualsQuotedAt(s, k).end + 1)
                    : k \in {CHOOSE k \in ks : \A j \in ks : j <= k} })
        ELSE NoMatch

RECURSIVE FluxFilters(_, _, _)
\* the loop over re.finditer(filter_pattern, s) for the matches from from on
FluxFilters(s, from, filters) ==
    LET at == {i \in from..Len(s) : LitAt(s, i, "filter(fn:") /\ FilterAt(s, i).ok}
    IN  IF at = {} THEN filters
        ELSE Only({ FluxFilters(s, m.end,
                        IF m.g1 \notin {"_measurement", "_field"}
                        THEN Append(filters, m.g1 \o "=\"" \o m.g2 \o "\"")
                        ELSE filters)
                    : m \in {FilterAt(s, Leftmost(at))} })

FluxAggregates == {"mean", "sum", "count", "min", "max", "stddev"}

\* re.search(aggregate_pattern, s): g1 the name of the leftmost call
SearchAggregate(s) ==
    LET at == {i \in 1..Len(s) : \E f \in FluxAggregates : LitAt(s, i, f \o "()")}
    IN  IF at = {} THEN NoMatch
        ELSE Match(CHOOSE f \in FluxAggregates : LitAt(s, Leftmost(at), f \o "()"), "", 0)

\* agg_map
FluxAggMap(f) == IF f = "mean" THEN "avg" ELSE f

convert_flux_to_promql(flux_query) ==
    LET range_match       == SearchRange(flux_query)
        measurement_match == SearchEquals(flux_query, "_measurement")
        field_match       == SearchEquals(flux_query, "_field")
        aggregate_match   == SearchAggregate(flux_query)
        time_range  == IF range_match.ok /\ StartsWith(range_match.g1, "-")
                       THEN "[" \o range_match.g1 \o "]" ELSE ""
        metric_name == IF measurement_match.ok /\ field_match.ok
                       THEN measurement_match.g1 \o "_" \o field_match.g1 ELSE ""
        filters     == FluxFilters(flux_query, 1, <<>>)
        promql      == metric_name
                       \o (IF Len(filters) > 0 THEN "{" \o Join(filters, ", ") \o "}" ELSE "")
                       \o time_range
    IN  IF aggregate_match.ok
        THEN FluxAggMap(aggregate_match.g1) \o "(" \o promql \o ")"
        ELSE promql

UpperLetters == "ABCDEFGHIJKLMNOPQRSTUVWXYZ"

LowerLetters == "abcdefghijklmnopqrstuvwxyz"

RECURSIVE Lower(_)
\* s.lower(), letter by letter; the halves keep the evaluation shallow
Lower(s) ==
    IF Len(s) = 0 THEN ""
    ELSE IF Len(s) = 1
         THEN (IF Contains(UpperLetters, s) THEN At(LowerLetters, Find(UpperLetters, s, 1)) ELSE s)
    ELSE Lower(SubSeq(s, 1, Len(s) \div 2)) \o Lower(SubSeq(s, Len(s) \div 2 + 1, Len(s)))

RECURSIVE Upper(_)
\* s.upper()
Upper(s) ==
    IF Len(s) = 0 THEN ""
    ELSE IF Len(s) = 1
         THEN (IF Contains(LowerLetters, s) THEN At(UpperLetters, Find(LowerLetters, s, 1)) ELSE s)
    ELSE Upper(SubSeq(s, 1, Len(s) \div 2)) \o Upper(SubSeq(s, Len(s) \div 2 + 1, Len(s)))

\* lit, given in small letters, occurs in s at position i in any letter case
LitAtCI(s, i, lit) ==
    /\ i >= 1 /\ i + Len(lit) - 1 <= Len(s)
    /\ Lower(At(s, i)) = At(lit, 1)
    /\ Lower(SubSeq(s, i, i + Len(lit) - 1)) = lit

\* [a-zA-Z0-9_]
IsWordChar(c) ==
    Len(c) = 1 /\ (c = "_" \/ IsDigit(c) \/ Contains(UpperLetters, c) \/ Contains(LowerLetters, c))

RECURSIVE WordEnd(_, _)
\* the position behind the word characters that start at p
WordEnd(s, p) == IF IsWordChar(At(s, p)) THEN WordEnd(s, p + 1) ELSE p

RECURSIVE StripQuotes(_)
\* s.strip of the two quote characters
StripQuotes(s) ==
    IF Len(s) > 0 /\ At(s, 1) \in {"\"", "'"} THEN StripQuotes(Tail_(s, 2))
    ELSE IF Len(s) > 0 /\ At(s, Len(s)) \in {"\"", "'"}
         THEN StripQuotes(SubSeq(s, 1, Len(s) - 1))
    ELSE s

\* the characters [^FROM] leaves out when the letter case is ignored
FromLetters == {"F", "R", "O", "M", "f", "r", "o", "m"}

\* select_pattern matched at i: g1 the select clause, g2 the measurement
SelectAt(s, i) ==
    LET p1 == i + Len("select")
        p2 == SkipWs(s, p1)
        e1 == RunEnd(s, p1, FromLetters)
        f1 == e1 + Len("from")
        f2 == SkipWs(s, f1)
        e2 == RunEnd(s, f2, {" ", ";"})
    IN  IF /\ LitAtCI(s, i, "select") /\ At(s, p1) = " " /\ e1 >= p1 + 2
           /\ LitAtCI(s, e1, "from") /\ At(s, f1) = " " /\ e2 > f2
        THEN Match(IF e1 > p2 THEN SubSeq(s, p2, e1 - 1) ELSE " ", SubSeq(s, f2, e2 - 1), e2)
        ELSE NoMatch

\* re.search(select_pattern, s, re.IGNORECASE)
SearchSelect(s) ==
    LET at == {i \in 1..Len(s) : SelectAt(s, i).ok}
    IN  IF at = {} THEN NoMatch ELSE SelectAt(s, Leftmost(at))

\* GROUP BY, ORDER BY, LIMIT or the end of the text stands at position t
ClauseEndAt(s, t) ==
    \/ t = Len(s) + 1
    \/ LitAtCI(s, t, "group by") \/ LitAtCI(s, t, "order by") \/ LitAtCI(s, t, "limit")

\* where_pattern matched at i: g1 the shortest text up to the next clause
WhereAt(s, i) ==
    LET p1 == i + Len("where")
        p2 == SkipWs(s, p1)
        ts == {t \in (p2 + 1)..(Len(s) + 1) : ClauseEndAt(s, t)}
    IN  IF ~LitAtCI(s, i, "where") \/ At(s, p1) # " " THEN NoMatch
        ELSE IF p2 <= Len(s) THEN Match(SubSeq(s, p2, Leftmost(ts) - 1), "", Leftmost(ts))
        ELSE IF p2 >= p1 + 2 THEN Match(" ", "", p2)
        ELSE NoMatch

\* re.search(where_pattern, s, re.IGNORECASE)
SearchWhere(s) ==
    LET at == {i \in 1..Len(s) : WhereAt(s, i).ok}
    IN  IF at = {} THEN NoMatch ELSE WhereAt(s, Leftmost(at))

\* the value [^\s)]+ behind an operator that ends before position p
TimeValueAt(s, p) ==
    LET v0 == SkipWs(s, p)
        v1 == RunEnd(s, v0, {" ", ")"})
    IN  IF v1 > v0 THEN Match("", SubSeq(s, v0, v1 - 1), v1) ELSE NoMatch

\* time_pattern matched at i: the operators are tried in the order >=, >, <=, <
TimeAt(s, i) ==
    LET p == SkipWs(s, i + Len("time")) IN
    IF ~LitAtCI(s, i, "time") THEN NoMatch
    ELSE IF LitAt(s, p, ">=") /\ TimeValueAt(s, p + 2).ok THEN TimeValueAt(s, p + 2)
    ELSE IF LitAt(s, p, ">") /\ TimeValueAt(s, p + 1).ok THEN TimeValueAt(s, p + 1)
    ELSE IF LitAt(s, p, "<=") /\ TimeValueAt(s, p + 2).ok THEN TimeValueAt(s, p + 2)
    ELSE IF LitAt(s, p, "<") /\ TimeValueAt(s, p + 1).ok THEN TimeValueAt(s, p + 1)
    ELSE NoMatch

\* re.search(time_pattern, s, re.IGNORECASE): g2 the time value
SearchTime(s) ==
    LET at == {i \in 1..Len(s) : TimeAt(s, i).ok}
    IN  IF at = {} THEN NoMatch ELSE TimeAt(s, Leftmost(at))

\* now\(\)\s*-\s*(\d+)([hmd]) matched at i: g1 the amount, g2 the unit
DurationAt(s, i) ==
    LET minus == SkipWs(s, i + Len("now()"))
        d0    == SkipWs(s, minus + 1)
        d1    == SkipDigits(s, d0)
    IN  IF /\ LitAt(s, i, "now()") /\ At(s, minus) = "-" /\ d1 > d0
           /\ At(s, d1) \in {"h", "m", "d"}
        THEN Match(SubSeq(s, d0, d1 - 1), At(s, d1), d1 + 1)
        ELSE NoMatch

\* the time range of a time value: [<amount><unit>] for now() - <amount><unit>
InfluxqlTimeRange(time_value) ==
    LET at == {i \in 1..Len(time_value) : DurationAt(time_value, i).ok} IN
    IF Contains(time_value, "now()") /\ Contains(time_value, "-") /\ at # {}
    THEN "[" \o DurationAt(time_value, Leftmost(at)).g1
             \o DurationAt(time_value, Leftmost(at)).g2 \o "]"
    ELSE ""

\* tag_pattern matched at i: g1 the tag, g2 the value
TagAt(s, i) ==
    LET w     == WordEnd(s, i)
        eq    == SkipWs(s, w)
        open  == SkipWs(s, eq + 1)
        close == Find(s, "'", open + 1)
    IN  IF w > i /\ At(s, eq) = "=" /\ At(s, open) = "'" /\ close > open + 1
        THEN Match(SubSeq(s, i, w - 1), SubSeq(s, open + 1, close - 1), close + 1)
        ELSE NoMatch

RECURSIVE InfluxqlFilters(_, _, _)
\* the loop over re.finditer(tag_pattern, s) for the matches from from on
InfluxqlFilters(s, from, filters) ==
    LET at == {i \in from..Len(s) : TagAt(s, i).ok}
    IN  IF at = {} THEN filters
        ELSE Only({ InfluxqlFilters(s, m.end, Append(filters, m.g1 \o "=\"" \o m.g2 \o "\""))
                    : m \in {TagAt(s, Leftmost(at))} })

\* function_pattern matched at i: g1 the function name, g2 its argument
FunctionAt(s, i) ==
    LET w     == WordEnd(s, i)
        close == Find(s, ")", w + 1)
    IN  IF w > i /\ At(s, w) = "(" /\ close > 0
        THEN Match(SubSeq(s, i, w - 1), SubSeq(s, w + 1, close - 1), close + 1)
        ELSE NoMatch

\* re.search(function_pattern, s)
SearchFunction(s) ==
    LET at == {i \in 1..Len(s) : FunctionAt(s, i).ok}
    IN  IF at = {} THEN NoMatch ELSE FunctionAt(s, Leftmost(at))

\* func_map, "" for a function that is not in it
InfluxqlFuncMap(f) ==
    IF f = "mean" THEN "avg"
    ELSE IF f \in {"sum", "count", "min", "max"} THEN f
    ELSE ""

\* convert_influxql_to_promql behind the match of the SELECT statement
ConvertSelected(influxql_query, select_match) ==
    LET select_clause  == Strip(select_match.g1)
        measurement    == Strip(select_match.g2)
        function_match == SearchFunction(select_clause)
        field          == IF function_match.ok THEN StripQuotes(function_match.g2)
                          ELSE StripQuotes(select_clause)
        promql_function == IF function_match.ok
                           THEN InfluxqlFuncMap(Lower(function_match.g1)) ELSE ""
        where_match    == SearchWhere(influxql_query)
        where_clause   == Strip(where_match.g1)
        time_match     == SearchTime(where_clause)
        time_range     == IF where_match.ok /\ time_match.ok
                          THEN InfluxqlTimeRange(time_match.g2) ELSE ""
        filters        == IF where_match.ok THEN InfluxqlFilters(where_clause, 1, <<>>)
                          ELSE <<>>
        promql         == measurement \o "_" \o field
                          \o (IF Len(filters) > 0 THEN "{" \o Join(filters, ", ") \o "}" ELSE "")
                          \o time_range
    IN  IF promql_function # "" THEN promql_function \o "(" \o promql \o ")" ELSE promql

convert_influxql_to_promql(influxql_query) ==
    Only({ IF ~select_match.ok THEN "Error: Could not parse InfluxQL SELECT statement"
           ELSE ConvertSelected(influxql_query, select_match)
           : select_match \in {SearchSelect(influxql_query)} })

\* detect_query_type with the SELECT rule tried before the flux rule
DetectSelectFirst(query) ==
    IF StartsWith(Upper(Strip(query)), "SELECT") THEN "influxql"
    ELSE IF StartsWith(Lower(Strip(query)), "from") \/ Contains(query, "|>") THEN "flux"
    ELSE "unknown"

detect_query_type(query) ==
    IF StartsWith(Lower(Strip(query)), "from") \/ Contains(query, "|>") THEN "flux"
    ELSE IF StartsWith(Upper(Strip(query)), "SELECT") THEN "influxql"
    ELSE "unknown"

\* influx_to_promql with the detected type taking precedence over the forced one
InfluxToPromqlDetectedFirst(query, force_type) ==
    LET query_type == IF detect_query_type(query) # "unknown"
                      THEN detect_query_type(query) ELSE force_type IN
    IF query_type = "flux" THEN convert_flux_to_promql(query)
    ELSE IF query_type = "influxql" THEN convert_influxql_to_promql(query)
    ELSE "Error: Could not determine query type. Please specify using --type"

\* influx_to_promql; a force_type of "" is None
influx_to_promql(query, force_type) ==
    LET query_type == IF force_type # "" THEN force_type ELSE detect_query_type(query) IN
    IF query_type = "flux" THEN convert_flux_to_promql(query)
    ELSE IF query_type = "influxql" THEN convert_influxql_to_promql(query)
    ELSE "Error: Could not determine query type. Please specify using --type"

(* the metrics the calls draw from *)

\* the longest list of metrics drawn
MaxMetrics == 3

\* the longest label value drawn
MaxValueLen == 2

Metric(name, type, help, tenths, labels, timestamp) ==
    [name |-> name, type |-> type, help |-> help, value |-> tenths,
     labels |-> labels, timestamp |-> timestamp]

\* samples of four groups, with and without help text, each with its own value
GroupedMetrics ==
    { Metric("cpu", "gauge", "", 10, <<>>, <<>>),
      Metric("cpu", "gauge", "busy", 25, <<<<"host", "a">>>>, <<"1000">>),
      Metric("cpu", "gauge", "idle", 30, <<<<"host", "b">>>>, <<>>),
      Metric("cpu", "counter", "", 40, <<>>, <<>>),
      Metric("cpu", "counter", "busy", 55, <<>>, <<"2000">>),
      Metric("up", "gauge", "", 60, <<>>, <<>>),
      Metric("up", "gauge", "idle", 75, <<<<"job", "x">>, <<"host", "a">>>>, <<>>),
      Metric("up:gauge", "counter", "busy", 80, <<>>, <<>>) }

EscapeAlphabet == {"a", "n", "\\", "\"", "\n"}

RECURSIVE StringsUpTo(_)
\* the strings over EscapeAlphabet of length at most n
StringsUpTo(n) ==
    IF n = 0 THEN {""}
    ELSE LET shorter == StringsUpTo(n - 1)
         IN  shorter \cup { c \o t : c \in EscapeAlphabet, t \in shorter }

LabelKeys == {"a", "b", "ab", "B"}

\* the dicts over keys: every insertion order, every assignment of a value of vals
Dicts(keys, vals) ==
    { d \in UNION { [1..k -> keys \X vals] : k \in 0..Cardinality(keys) } :
         \A i, j \in 1..Len(d) : i # j => d[i][1] # d[j][1] }

LabelledMetrics ==
    { Metric("m", "gauge", "", 10, <<<<"k", v>>>>, <<>>) : v \in StringsUpTo(MaxValueLen) }
    \cup { Metric("m", "gauge", "", 10, d, <<>>) : d \in Dicts(LabelKeys, {"x", "\\n\""}) }

MetricInputs ==
    UNION { [1..k -> GroupedMetrics] : k \in 0..MaxMetrics }
    \cup { <<m>> : m \in LabelledMetrics }

(* the arguments convert_data is called with *)

\* the longest list of records drawn
MaxRecords == 2

Record(value, time, host, region) ==
    (IF value = <<>> THEN <<>> ELSE << <<"value", value[1]>> >>)
    \o (IF time = <<>> THEN <<>> ELSE << <<"time", time[1]>> >>)
    \o (IF host = <<>> THEN <<>> ELSE << <<"host", host[1]>> >>)
    \o (IF region = <<>> THEN <<>> ELSE << <<"region", region[1]>> >>)

\* what a record holds under the value column: <<>> is no such column
ValueCells ==
    { <<>>, <<PyFloat(905)>>, <<PyFloat(-25)>>, <<PyInt(7)>>, <<PyBool(TRUE)>>,
      <<PyStr("91.2")>>, <<PyStr(" 3 ")>>, <<PyStr("-4.")>>, <<PyStr("abc")>>, <<PyStr("")>>,
      <<PyStr("1.2.3")>>, <<PyNone>>, <<PyList>>, <<PyHugeInt(400)>> }

\* what a record holds under the timestamp column
TimeCells ==
    { <<>>, <<PyNone>>, <<PyInt(1672574400)>>, <<PyInt(-5)>>, <<PyFloat(15)>>,
      <<PyFloat(-19)>>, <<PyBool(TRUE)>>, <<PyNan>>, <<PyInf>>, <<PyList>>,
      <<PyStr("2023-01-01T12:00:00Z")>>, <<PyStr("2023-01-01T12:00:00.250+01:00")>>,
      <<PyStr("1969-12-31T23:59:59.999500Z")>>, <<PyStr("2023-01-01T12:00:00")>>,
      <<PyStr("2023-01-01")>>, <<PyStr("20230101")>>, <<PyStr("1672574400")>>,
      <<PyStr("yesterday")>>, <<PyStr("")>> }

\* what a record holds under the host column
HostCells ==
    { <<>>, <<PyNone>>, <<PyStr("a")>>, <<PyStr("")>>, <<PyInt(5)>>, <<PyFloat(15)>>,
      <<PyBool(FALSE)>> }

RecordInputs ==
    { Record(v, <<PyInt(1000)>>, <<PyStr("a")>>, <<>>) : v \in ValueCells }
    \cup { Record(<<PyFloat(10)>>, t, <<>>, <<>>) : t \in TimeCells }
    \cup { Record(<<PyInt(1)>>, <<>>, h, r) : h \in HostCells, r \in {<<>>, <<PyStr("eu")>>} }

\* the records the longer lists are made of
CoreRecords ==
    { Record(<<PyFloat(905)>>, <<>>, <<PyStr("a")>>, <<>>),
      Record(<<PyStr("91.2")>>, <<PyInt(1000)>>, <<PyNone>>, <<PyStr("eu")>>),
      Record(<<>>, <<PyInt(1000)>>, <<PyStr("a")>>, <<>>),
      Record(<<PyStr("abc")>>, <<>>, <<>>, <<>>),
      Record(<<PyHugeInt(400)>>, <<>>, <<>>, <<>>),
      Record(<<PyInt(2)>>, <<PyNan>>, <<>>, <<>>),
      Record(<<PyInt(3)>>, <<PyStr("yesterday")>>, <<PyStr("b")>>, <<>>) }

DataInputs ==
    { <<>> } \cup { <<r>> : r \in RecordInputs }
    \cup UNION { [1..k -> CoreRecords] : k \in 2..MaxRecords }

Args(data, metric_name, metric_type, label_columns, help_text, timestamp_column) ==
    [data |-> data, metric_name |-> metric_name, metric_type |-> metric_type,
     value_column |-> "value", label_columns |-> label_columns,
     help_text |-> help_text, timestamp_column |-> timestamp_column]

MetricNames == {"cpu_load", "", "9cpu", "cpu load", "cpu-load", "_cpu:load"}

ConvertInputs ==
    { Args(data, "cpu_load", type, label_columns, "busy", timestamp_column) :
         data \in DataInputs,
         type \in {"gauge", "counter", "timer"},
         label_columns \in {<<>>, <<"host">>, <<"region", "host", "host">>},
         timestamp_column \in {"", "time"} }
    \cup { Args(<<r>>, name, type, <<"host">>, help_text, "time") :
              r \in RecordInputs, name \in MetricNames,
              type \in {"summary", "histogram", "Gauge", ""}, help_text \in {"", "load"} }

(* the queries the translator is called with *)

\* the most tag equalities of a query
MaxTags == 2

Measurements == {"cpu", "mem"}

Fields == {"usage_user", "idle", "value"}

\* tag equalities as <<key, value>>
TagPairs == {<<"host", "server01">>, <<"region", "eu">>, <<"sub_field", "x">>}

\* the sequences of at most MaxTags different tag equalities
TagSeqs ==
    { t \in UNION { [1..k -> TagPairs] : k \in 0..MaxTags } :
         \A i, j \in 1..Len(t) : t[i] = t[j] => i = j }

\* r.<key> == "<value>"
FluxPred(pair) == "r." \o pair[1] \o " == \"" \o pair[2] \o "\""

\* filter(fn: (r) => <pred> and <pred> ...)
FluxFilterCall(pairs) ==
    "filter(fn: (r) => " \o Join([i \in 1..Len(pairs) |-> FluxPred(pairs[i])], " and ") \o ")"

\* the filter stages for the equalities pairs: in one call, or a call for each
FluxFilterStages(pairs, layout) ==
    IF Len(pairs) = 0 THEN <<>>
    ELSE IF layout = "one" THEN <<FluxFilterCall(pairs)>>
    ELSE [i \in 1..Len(pairs) |-> FluxFilterCall(<<pairs[i]>>)]

\* the pipeline from(...) |> stage |> stage ...
FluxQuery(stages) == Join(<<"from(bucket: \"system\")">> \o stages, " |> ")

\* the equalities on _measurement and _field of a query: <<>> stands for none
NamePairs(m, f) ==
    (IF m = <<>> THEN <<>> ELSE << <<"_measurement", m[1]>> >>)
    \o (IF f = <<>> THEN <<>> ELSE << <<"_field", f[1]>> >>)

FluxRanges ==
    { <<>>, <<"range(start: -1h)">>, <<"range(start:-30m)">>,
      <<"range(start: -7d, stop: -1d)">>, <<"range(start: -1h, stop: now())">>,
      <<"range(start: 2023-01-01T00:00:00Z)">>, <<"range(start: )">>,
      <<"range(start: -1h,stop: )">>, <<"range(stop: -1h)">> }

FluxAggregateStages ==
    { <<>>, <<"mean()">>, <<"max()">>, <<"sum()", "max()">>, <<"last()", "stddev()">>,
      <<"aggregateWindow(every: 1m, fn: mean)">> }

FluxQueries ==
    { FluxQuery(<<"range(start: -1h)">>
                   \o FluxFilterStages(NamePairs(m, f) \o tags, layout) \o aggs) :
         m \in {<<>>} \cup {<<x>> : x \in Measurements},
         f \in {<<>>} \cup {<<x>> : x \in {"usage_user", "idle"}},
         tags \in TagSeqs, layout \in {"one", "each"}, aggs \in {<<>>, <<"mean()">>} }
    \cup { FluxQuery(range \o FluxFilterStages(NamePairs(<<m>>, f), "one")) :
              range \in FluxRanges, m \in Measurements,
              f \in {<<>>, <<"usage_user">>, <<"value">>} }
    \cup { FluxQuery(range
                       \o FluxFilterStages(<< <<"_measurement", "cpu">>, <<"_field", "usage_user">>,
                                              <<"host", "server01">> >>, "each")
                       \o aggs) :
              range \in FluxRanges, aggs \in FluxAggregateStages }
    \cup { FluxQuery(<<"range(start: -1h)">>
                       \o FluxFilterStages(tags \o NamePairs(<<m>>, <<f>>), "one")) :
              m \in Measurements, f \in Fields, tags \in TagSeqs }
    \cup { "from(bucket:\"b\")|>range(start:-5m)|>filter(fn:(r)=>r.host==\"a\")|>count()",
           "  FROM(bucket: \"system\")", "data |> mean()" }

\* the select clause of a field, bare or in a call of fn
SelectClauses ==
    { "\"" \o f \o "\"" : f \in Fields } \cup Fields \cup { "*" }
    \cup { fn \o "(\"" \o f \o "\")" :
              fn \in {"mean", "sum", "count", "min", "max", "MEAN", "last", "stddev"},
              f \in Fields }

WhereClauses ==
    { "", " WHERE time >= now() - 1h", " WHERE time >= now() - 1h GROUP BY time(1m)",
      " WHERE time >= now() - 1h AND \"host\" = 'server01'",
      " WHERE time > now()-30m AND host = 'server01' and region='eu' ORDER BY time",
      " WHERE time >= now() - 30m AND host = 'server01' AND region = 'eu'",
      " WHERE host = 'server01'", " where host = 'a' LIMIT 5", " GROUP BY time(1m)",
      " WHERE time >=", " WHERE  ", "; DROP" }

InfluxqlQueries ==
    { "SELECT " \o clause \o " FROM " \o m \o where :
         clause \in SelectClauses, m \in {"\"cpu\"", "cpu", "\"mem\""},
         where \in {"", " WHERE time >= now() - 1h"} }
    \cup { select \o clause \o from \o m \o where :
              select \in {"SELECT ", "select "},
              clause \in {"\"idle\"", "\"usage_user\"", "mean(\"value\")"},
              from \in {" FROM ", " from "}, m \in {"\"cpu\"", "cpu"},
              where \in WhereClauses }
    \cup { "SELECT  FROM cpu", "SELECT \"idle\"FROM cpu", "SELECT \"idle\" FROM",
           "  SELECT \"idle\" FROM cpu |> x", "SELECT", "show SELECT \"idle\" FROM cpu" }

OtherQueries ==
    { "", " ", "this is not a valid query", "SHOW MEASUREMENTS", "fro",
      "FrOm(bucket: \"b\")", " fromage ", "not from here", "x |> y", "|>",
      "SeLeCt \"idle\" FROM cpu", "SELECTED", "my SELECT", "select * from cpu |> yield()",
      "SELECT |", "> |" }

QueryInputs == FluxQueries \cup InfluxqlQueries \cup OtherQueries

\* the arguments of a call of the translator; a force_type of "" is None
Query(query, force_type) == [query |-> query, force_type |-> force_type]

(* the calls *)

Init ==
    /\ op = "idle"
    /\ env = DefaultEnv
    /\ arg = ""
    /\ out = Returns("")

FormatTimestamp ==
    /\ op = "idle"
    /\ \E t \in TimestampInputs, e \in Envs :
          /\ op' = "format_timestamp"
          /\ env' = e
          /\ arg' = t
          /\ out' = format_timestamp(t, e)

\* the caller takes the outcome; nothing is kept between calls
Return ==
    /\ op # "idle"
    /\ op' = "idle"
    /\ env' = DefaultEnv
    /\ arg' = ""
    /\ out' = Returns("")

ParseInfluxdbCsv ==
    /\ op = "idle"
    /\ \E rows \in CsvInputs :
          /\ op' = "parse_influxdb_csv"
          /\ env' = DefaultEnv
          /\ arg' = rows
          /\ out' = parse_influxdb_csv(rows)

InfluxToPrometheus ==
    /\ op = "idle"
    /\ \E rows \in CsvInputs, e \in Envs :
          /\ op' = "influx_to_prometheus"
          /\ env' = e
          /\ arg' = rows
          /\ out' = influx_to_prometheus(rows, e)

FormatMetrics ==
    /\ op = "idle"
    /\ \E metrics \in MetricInputs :
          /\ op' = "format_metrics"
          /\ env' = DefaultEnv
          /\ arg' = metrics
          /\ out' = format_metrics(metrics)

ConvertData ==
    /\ op = "idle"
    /\ \E a \in ConvertInputs, e \in Envs :
          /\ op' = "convert_data"
          /\ env' = e
          /\ arg' = a
          /\ out' = convert_data(a, e)

Convert ==
    /\ op = "idle"
    /\ \E a \in ConvertInputs, e \in Envs :
          /\ op' = "convert"
          /\ env' = e
          /\ arg' = a
          /\ out' = convert(a, e)

ConvertFluxToPromql ==
    /\ op = "idle"
    /\ \E query \in QueryInputs :
          /\ op' = "convert_flux_to_promql"
          /\ env' = DefaultEnv
          /\ arg' = Query(query, "")
          /\ out' = Returns(convert_flux_to_promql(query))

ConvertInfluxqlToPromql ==
    /\ op = "idle"
    /\ \E query \in QueryInputs :
          /\ op' = "convert_influxql_to_promql"
          /\ env' = DefaultEnv
          /\ arg' = Query(query, "")
          /\ out' = Returns(convert_influxql_to_promql(query))

DetectQueryType ==
    /\ op = "idle"
    /\ \E query \in QueryInputs :
          /\ op' = "detect_query_type"
          /\ env' = DefaultEnv
          /\ arg' = Query(query, "")
          /\ out' = Returns(detect_query_type(query))

InfluxToPromql ==
    /\ op = "idle"
    /\ \E query \in QueryInputs, force_type \in {"", "flux", "influxql"} :
          /\ op' = "influx_to_promql"
          /\ env' = DefaultEnv
          /\ arg' = Query(query, force_type)
          /\ out' = Returns(influx_to_promql(query, force_type))

NextTs == FormatTimestamp \/ Return

NextCsv == ParseInfluxdbCsv \/ InfluxToPrometheus \/ Return

SpecCsv == Init /\ [][NextCsv]_vars

NextFmt == FormatMetrics \/ Return

SpecFmt == Init /\ [][NextFmt]_vars

NextQl ==
    \/ ConvertFluxToPromql \/ ConvertInfluxqlToPromql \/ DetectQueryType \/ InfluxToPromql
    \/ Return

SpecQl == Init /\ [][NextQl]_vars

NextConv == ConvertData \/ Convert \/ Return

SpecConv == Init /\ [][NextConv]_vars

Next ==
    \/ FormatTimestamp \/ ParseInfluxdbCsv \/ InfluxToPrometheus \/ FormatMetrics
    \/ ConvertData \/ Convert
    \/ ConvertFluxToPromql \/ ConvertInfluxqlToPromql \/ DetectQueryType \/ InfluxToPromql
    \/ Return

Spec == Init /\ [][Next]_vars

SpecTs == Init /\ [][NextTs]_vars

(* Properties *)

RECURSIVE Split(_, _)
\* the pieces of s between the occurrences of the character sep
Split(s, sep) ==
    IF \E i \in 1..Len(s) : At(s, i) = sep
    THEN LET i == CHOOSE i \in 1..Len(s) :
                     At(s, i) = sep /\ \A j \in 1..(i - 1) : At(s, j) # sep
         IN  <<SubSeq(s, 1, i - 1)>> \o Split(Tail_(s, i + 1), sep)
    ELSE <<s>>

SameGroup(a, b) == a.name = b.name /\ a.type = b.type

\* no earlier metric of ms is in the group of ms[i]
FirstOfGroup(ms, i) == \A j \in 1..(i - 1) : ~SameGroup(ms[j], ms[i])

\* the position of the first metric of the group of ms[i]
Leader(ms, i) == CHOOSE j \in 1..i : SameGroup(ms[j], ms[i]) /\ FirstOfGroup(ms, j)

\* the positions of ms ordered by group (groups by first occurrence), then by position
GroupedOrder(ms) ==
    LET before(j, i) == Leader(ms, j) < Leader(ms, i)
                        \/ (Leader(ms, j) = Leader(ms, i) /\ j < i)
        rank(i) == 1 + Cardinality({j \in 1..Len(ms) : before(j, i)})
    IN  [k \in 1..Len(ms) |-> CHOOSE i \in 1..Len(ms) : rank(i) = k]

NumGroups(ms) == Cardinality({Leader(ms, i) : i \in 1..Len(ms)})

IsHeaderLine(line) == StartsWith(line, "# ")
IsSampleLine(line) == line # "" /\ ~IsHeaderLine(line)

\* the positions of the sample lines among lines
SamplePositions(lines) ==
    SelectSeq([i \in 1..Len(lines) |-> i], LAMBDA i : IsSampleLine(lines[i]))

HelpLine(m, help) == "# HELP " \o m.name \o " " \o help
TypeLine(m) == "# TYPE " \o m.name \o " " \o m.type

ExpectedTestOutput ==
    "cpu_usage_user{host=\"server01\"} 90.5 1672552800000\ncpu_usage_system{host=\"server01\"} 91.2 1672556400000"

\* C1: influx_to_prometheus turns the query-result CSV of the test (table=0,
\* host=server01) into exactly the two expected lines, in input order, joined
\* by one newline, with host as the only label.
C1_LegacyEndToEnd ==
    (op = "influx_to_prometheus" /\ arg = TestCsv)
        => (out.raised = "none" /\ out.value = ExpectedTestOutput)

\* C2: format_metrics partitions the samples by (name, type): one sample line
\* per sample, the lines of a group contiguous, groups in order of first
\* occurrence, samples of a group in input order, one TYPE line per group,
\* preceded by a HELP line iff the first sample of the group has help text.
C2_GroupedBySeries ==
    (op = "format_metrics" /\ Len(arg) > 0) =>
        LET ms    == arg
            lines == Split(out.value, "\n")
            order == GroupedOrder(ms)
            at    == SamplePositions(lines)
        IN  /\ Len(at) = Len(ms)
            /\ \A k \in 1..Len(ms) :
                  LET m == ms[order[k]] IN
                  /\ lines[at[k]] = SampleLine(m)
                  /\ IF FirstOfGroup(ms, order[k])
                     THEN /\ at[k] > 1
                          /\ lines[at[k] - 1] = TypeLine(m)
                          /\ m.help # "" => (at[k] > 2 /\ lines[at[k] - 2] = HelpLine(m, m.help))
                          /\ m.help = "" => (at[k] = 2 \/ lines[at[k] - 2] = "")
                     ELSE at[k] = at[k - 1] + 1
            /\ Cardinality({i \in 1..Len(lines) : StartsWith(lines[i], "# TYPE ")})
                  = NumGroups(ms)
            /\ Cardinality({i \in 1..Len(lines) : StartsWith(lines[i], "# HELP ")})
                  = Cardinality({i \in 1..Len(ms) : FirstOfGroup(ms, i) /\ ms[i].help # ""})

\* interleaved samples of two groups, the first of one group with help text
\* and the first of the other without, have been formatted
C2_Witness ==
    /\ op = "format_metrics"
    /\ Len(arg) = 3
    /\ SameGroup(arg[1], arg[3]) /\ ~SameGroup(arg[1], arg[2])
    /\ arg[1].help # "" /\ arg[2].help = ""
    /\ arg[1] # arg[3]
    /\ out.value # ""

\* the first help text among the metrics of the group of ms[i], "" if none has one
FirstHelp(ms, i) ==
    LET with == {j \in 1..Len(ms) : SameGroup(ms[j], ms[i]) /\ ms[j].help # ""}
    IN  IF with = {} THEN ""
        ELSE ms[CHOOSE j \in with : \A k \in with : j <= k].help

\* C3: a group in which any sample carries help text gets exactly one HELP
\* line, with the first help text found among the samples of the group, also
\* when the first sample of the group has none.
C3_HelpFromAnySample ==
    (op = "format_metrics" /\ Len(arg) > 0) =>
        LET ms    == arg
            lines == Split(out.value, "\n")
            order == GroupedOrder(ms)
            at    == SamplePositions(lines)
        IN  /\ \A k \in 1..Len(ms) :
                  (FirstOfGroup(ms, order[k]) /\ FirstHelp(ms, order[k]) # "")
                      => /\ k <= Len(at) /\ at[k] > 2
                         /\ lines[at[k] - 2] = HelpLine(ms[order[k]], FirstHelp(ms, order[k]))
            /\ Cardinality({i \in 1..Len(lines) : StartsWith(lines[i], "# HELP ")})
                  = Cardinality({i \in 1..Len(ms) :
                                    FirstOfGroup(ms, i) /\ FirstHelp(ms, i) # ""})

RECURSIVE ReadValue(_, _, _)
\* reads a quoted label value of line from p on, undoing the escapes, up to the
\* closing quote; fails at a raw newline, an unknown escape or the end of the line
ReadValue(line, p, acc) ==
    LET c == At(line, p)
        d == At(line, p + 1)
    IN  IF c = "" \/ c = "\n" THEN [ok |-> FALSE, value |-> acc, next |-> p]
        ELSE IF c = "\"" THEN [ok |-> TRUE, value |-> acc, next |-> p + 1]
        ELSE IF c # "\\" THEN ReadValue(line, p + 1, acc \o c)
        ELSE IF d = "n" THEN ReadValue(line, p + 2, acc \o "\n")
        ELSE IF d \in {"\\", "\""} THEN ReadValue(line, p + 2, acc \o d)
        ELSE [ok |-> FALSE, value |-> acc, next |-> p]

RECURSIVE ReadKey(_, _, _)
ReadKey(line, p, acc) ==
    IF At(line, p) \in {"", "="} THEN [key |-> acc, next |-> p]
    ELSE ReadKey(line, p + 1, acc \o At(line, p))

RECURSIVE ReadLabels(_, _, _)
\* reads k="v",...} of line from p on: the items read and the position behind "}"
ReadLabels(line, p, items) ==
    LET k == ReadKey(line, p, "")
        v == ReadValue(line, k.next + 2, "")
        bad == [ok |-> FALSE, items |-> items, next |-> p]
    IN  IF SubSeq(line, k.next, k.next + 1) # "=\"" \/ ~v.ok THEN bad
        ELSE IF At(line, v.next) = ","
             THEN ReadLabels(line, v.next + 1, Append(items, <<k.key, v.value>>))
        ELSE IF At(line, v.next) = "}"
             THEN [ok |-> TRUE, items |-> Append(items, <<k.key, v.value>>), next |-> v.next + 1]
        ELSE bad

\* the items of a dict in ascending order of their keys
AscendingByKey(labels) ==
    LET rank(i) == 1 + Cardinality({j \in 1..Len(labels) : StrLess(labels[j][1], labels[i][1])})
    IN  [k \in 1..Len(labels) |-> labels[CHOOSE i \in 1..Len(labels) : rank(i) = k]]

\* the insertion orders of the dict labels
Reorderings(labels) ==
    { [i \in 1..Len(labels) |-> labels[f[i]]] :
        f \in { g \in [1..Len(labels) -> 1..Len(labels)] :
                   \A i, j \in 1..Len(labels) : i # j => g[i] # g[j] } }

\* C4: the labels of a sample line are rendered as {k1="v1",k2="v2"} in
\* ascending order of the keys, whatever their insertion order, and each value
\* is escaped so that it holds no raw newline and no unescaped quote and
\* un-escaping gives back the original value.
C4_LabelsSortedAndEscaped ==
    (op = "format_metrics" /\ Len(arg) > 0) =>
        LET ms    == arg
            lines == Split(out.value, "\n")
            order == GroupedOrder(ms)
            at    == SamplePositions(lines)
        IN  /\ Len(at) = Len(ms)
            /\ \A k \in 1..Len(ms) :
                  LET m    == ms[order[k]]
                      line == lines[at[k]]
                      read == ReadLabels(line, Len(m.name) + 2, <<>>)
                  IN  Len(m.labels) > 0 =>
                        /\ SubSeq(line, 1, Len(m.name) + 1) = m.name \o "{"
                        /\ read.ok
                        /\ read.items = AscendingByKey(m.labels)
                        /\ At(line, read.next) = " "
                        /\ \A d \in Reorderings(m.labels) :
                              SampleLine([m EXCEPT !.labels = d]) = line

\* a sample whose labels were inserted in descending key order, one value
\* holding a backslash followed by "n" and a quote, has been formatted
C4_Witness ==
    /\ op = "format_metrics"
    /\ Len(arg) = 1
    /\ arg[1].labels = <<<<"b", "\\n\"">>, <<"a", "x">>>>
    /\ out.value = "# TYPE m gauge\nm{a=\"x\",b=\"\\\\n\\\"\"} 1.0\n"

\* C5: format_metrics returns "" for no samples; otherwise the output split on
\* newline holds, per group, the header and sample lines of the group and then
\* exactly one empty element: one blank line between groups, and behind the
\* last sample line of the final group only the blank element of that group.
C5_BlankLineStructure ==
    op = "format_metrics" =>
        IF Len(arg) = 0 THEN out.value = ""
        ELSE LET lines  == Split(out.value, "\n")
                 blanks == {i \in 1..Len(lines) : lines[i] = ""}
             IN  /\ Cardinality(blanks) = NumGroups(arg)
                 /\ Len(lines) \in blanks
                 /\ \A i \in blanks :
                       /\ i > 1 /\ IsSampleLine(lines[i - 1])
                       /\ i < Len(lines) => IsHeaderLine(lines[i + 1])
                 /\ \A i \in 1..Len(lines) :
                       IsHeaderLine(lines[i]) =>
                          (i = 1 \/ lines[i - 1] = "" \/ StartsWith(lines[i - 1], "# HELP "))
                 /\ Len(lines) = 2 * NumGroups(arg) + Len(arg)
                       + Cardinality({i \in 1..Len(arg) : FirstOfGroup(arg, i) /\ arg[i].help # ""})

\* samples of two groups have been formatted
C5_Witness ==
    /\ op = "format_metrics"
    /\ Len(arg) = 2
    /\ NumGroups(arg) = 2
    /\ Len(Split(out.value, "\n")) >= 6

\* the decimal text of floor(t * 1000) for the instant c.s + c.us / 10^6
FloorMillisText(c) ==
    IF c.s >= 0 THEN MsText(FALSE, c.s, c.us \div 1000)
    ELSE IF c.us \div 1000 = 0 THEN MsText(TRUE, -c.s, 0)
    ELSE MsText(TRUE, -c.s - 1, 1000 - c.us \div 1000)

\* C6: for every valid RFC3339 timestamp with "Z" or a UTC offset,
\* format_timestamp returns the decimal text of floor(seconds since the epoch
\* * 1000), also before 1970 and with a fraction below the millisecond.
C6_Rfc3339ToFloorMillis ==
    op = "format_timestamp" =>
        \A c \in Rfc3339Cases :
            arg = c.text => (out.raised = "none" /\ out.value = FloorMillisText(c))

\* the decimal text of int(digits) * 1000
TimesThousandText(digits) ==
    IF StripZeros(digits) = "" THEN "0" ELSE StripZeros(digits) \o "000"

\* C7: a timestamp made only of digits is multiplied by 1000 when it has at
\* most 12 digits and returned unchanged when it has 13 or more.
C7_DigitsSecondsOrMillis ==
    (op = "format_timestamp" /\ Len(arg) > 0 /\ AllDigits(arg)) =>
        /\ out.raised = "none"
        /\ Len(arg) <= 12 => out.value = TimesThousandText(arg)
        /\ Len(arg) >= 13 => out.value = arg

\* the text is a decimal integer, as a number of epoch milliseconds is
IsMillisText(t) ==
    \/ Len(t) > 0 /\ AllDigits(t)
    \/ Len(t) > 1 /\ At(t, 1) = "-" /\ AllDigits(Tail_(t, 2))

\* the text behind the last space of the line
LastField(line) == Split(line, " ")[Len(Split(line, " "))]

\* C8: format_timestamp raises, and returns no value, for every input that
\* parses neither as RFC3339/ISO-8601 nor as a number, whatever its length;
\* so influx_to_prometheus, when it returns, returns only lines that end
\* in a number of epoch milliseconds.
C8_UnparseableRaises ==
    /\ (/\ op = "format_timestamp"
        /\ ~fromisoformat(Replace(arg, "Z", "+00:00"), env.lenient).ok
        /\ ~ParseFloat(arg).ok)
           => out.raised # "none"
    /\ (op = "influx_to_prometheus" /\ out.raised = "none" /\ out.value # "")
           => \A k \in 1..Len(Split(out.value, "\n")) :
                 IsMillisText(LastField(Split(out.value, "\n")[k]))

\* the row is neither blank nor a "#" row
IsContentRow(row) == Len(row) > 0 /\ ~StartsWith(row[1], "#")

\* the position of the header row of a CSV that has one
HeaderPosition(rows) ==
    CHOOSE h \in 1..Len(rows) :
        IsContentRow(rows[h]) /\ \A j \in 1..(h - 1) : ~IsContentRow(rows[j])

\* C9: parse_influxdb_csv fails with the missing-header error when no row is
\* non-blank and without a leading "#", and with the missing-column error when
\* one of _time, _measurement, _field, _value is absent from the header row,
\* whatever the data rows hold; it returns no records then.
C9_HeaderErrors ==
    op = "parse_influxdb_csv" =>
        IF \A i \in 1..Len(arg) : ~IsContentRow(arg[i])
        THEN out.raised = "MissingHeader" /\ out.value = ""
        ELSE LET header == arg[HeaderPosition(arg)] IN
             (\E c \in ReservedColumns : \A k \in 1..Len(header) : header[k] # c)
                 => (out.raised = "MissingColumn" /\ out.value = "")

\* a CSV whose header lacks only _field, followed by data rows, has been refused
C9_Witness ==
    /\ op = "parse_influxdb_csv"
    /\ arg = << <<"_time", "_measurement", "_value", "host", "_start">>, TestRow1, TestRow2 >>
    /\ out.raised = "MissingColumn"

\* the data rows that give a record: behind the header, long enough to hold
\* the four reserved columns
RecordRows(rows) ==
    LET h      == HeaderPosition(rows)
        header == rows[h]
        need   == CHOOSE n \in 1..Len(header) :
                     /\ header[n] \in ReservedColumns
                     /\ \A c \in ReservedColumns : HeaderIndex(header, c) <= n
    IN  SelectSeq(SubSeq(rows, h + 1, Len(rows)), LAMBDA r : Len(r) >= need)

\* the tags of row under header when the columns named in cols are the tag
\* columns: the non-empty cells, the last one for a name that occurs twice
TagsOver(header, row, cols) ==
    LET filled == {i \in 1..Len(header) :
                      header[i] \in cols /\ i <= Len(row) /\ row[i] # ""}
    IN  { <<header[i], row[i]>> :
             i \in {i \in filled : \A j \in filled : header[j] = header[i] => j <= i} }

ColumnNames(header) == {header[i] : i \in 1..Len(header)}

Items(dict) == {dict[i] : i \in 1..Len(dict)}

Permute(row, p) == [i \in 1..Len(row) |-> row[p[i]]]

\* the CSV with the columns of the header row h and of every row behind it
\* put in the order p
PermuteColumns(rows, h, p) ==
    [i \in 1..Len(rows) |-> IF i >= h THEN Permute(rows[i], p) ELSE rows[i]]

\* the same records in the same order, the tags compared as mappings
SameRecords(a, b) ==
    /\ Len(a) = Len(b)
    /\ \A k \in 1..Len(a) :
          /\ a[k].timestamp = b[k].timestamp
          /\ a[k].measurement = b[k].measurement
          /\ a[k].field = b[k].field
          /\ a[k].value = b[k].value
          /\ Items(a[k].tags) = Items(b[k].tags)

\* a CSV has been parsed whose header holds the four reserved columns and
\* whose data rows are as long as the header
FullWidthCsvParsed ==
    /\ op = "parse_influxdb_csv"
    /\ \E i \in 1..Len(arg) : IsContentRow(arg[i])
    /\ ReservedColumns \subseteq ColumnNames(arg[HeaderPosition(arg)])
    /\ \A i \in (HeaderPosition(arg) + 1)..Len(arg) :
          Len(arg[i]) = Len(arg[HeaderPosition(arg)])

\* the most columns of which every order is tried; wider headers have every
\* exchange of two columns tried
MaxShuffled == 6

ColumnOrders(n) ==
    IF n <= MaxShuffled THEN Permutations(1..n)
    ELSE { [i \in 1..n |-> IF i = a THEN b ELSE IF i = b THEN a ELSE i] :
              a \in 1..n, b \in 1..n }

\* parsing the CSV with its columns in the order p gives the records of out
SameInOrder(p) ==
    Only({ r.raised = "none" /\ SameRecords(r.value, out.value)
           : r \in {parse_influxdb_csv(PermuteColumns(arg, HeaderPosition(arg), p))} })

\* C11: for a header with the four reserved columns and data rows as long as
\* the header, one permutation applied to the columns of the header and of
\* every data row leaves the records parse_influxdb_csv returns unchanged.
C11_ColumnOrderIndependence ==
    FullWidthCsvParsed =>
        \A p \in ColumnOrders(Len(arg[HeaderPosition(arg)])) : SameInOrder(p)

\* C11 as amended: the same, for a header whose column names are pairwise
\* distinct and a permutation that does not put a name beginning with "#"
\* in the first column.
C11_DistinctColumnOrderIndependence ==
    (/\ FullWidthCsvParsed
     /\ \A i, j \in 1..Len(arg[HeaderPosition(arg)]) :
           arg[HeaderPosition(arg)][i] = arg[HeaderPosition(arg)][j] => i = j)
        => \A p \in ColumnOrders(Len(arg[HeaderPosition(arg)])) :
              ~StartsWith(arg[HeaderPosition(arg)][p[1]], "#") => SameInOrder(p)

\* a CSV with the reserved columns last to first and two tag columns has
\* given a record with a tag, and gives it with the columns reversed as well
C11_Witness ==
    /\ FullWidthCsvParsed
    /\ arg[HeaderPosition(arg)]
          = <<"host", "_value", "_field", "_measurement", "_time", "region">>
    /\ Len(out.value) = 2
    /\ out.value[1].tags # <<>>
    /\ out.value[1].timestamp # out.value[2].timestamp
    /\ SameInOrder([i \in 1..6 |-> 7 - i])

\* the columns of label_columns that the record holds with a value other than null
LabelColumnsOf(record, label_columns) ==
    { c \in {label_columns[i] : i \in 1..Len(label_columns)} :
         \E j \in 1..Len(record) : record[j][1] = c /\ record[j][2].t # "NoneType" }

\* C12: on success convert_data returns one sample per record, in input
\* order, each with the metric name, type and help text given and with the
\* labels of exactly the label columns present and not null in its record,
\* as strings; an absent or null label column is left out and is no error.
C12_OneSamplePerRecord ==
    (op = "convert_data" /\ out.raised = "none") =>
        /\ Len(out.value) = Len(arg.data)
        /\ \A k \in 1..Len(arg.data) :
              /\ out.value[k].name = arg.metric_name
              /\ out.value[k].type = arg.metric_type
              /\ out.value[k].help = arg.help_text
              /\ out.value[k].value = FloatOf(DictGet(arg.data[k], arg.value_column)).value
              /\ Items(out.value[k].labels)
                    = { <<c, StrOf(DictGet(arg.data[k], c))>> :
                           c \in LabelColumnsOf(arg.data[k], arg.label_columns) }
              /\ Cardinality(Items(out.value[k].labels)) = Len(out.value[k].labels)

\* two records, the second with a null host, have given two samples in
\* order, the second without the host label
C12_Witness ==
    /\ op = "convert_data"
    /\ arg.label_columns = <<"region", "host", "host">>
    /\ out.raised = "none"
    /\ Len(out.value) = 2
    /\ out.value[1].value = 905 /\ out.value[1].labels = <<<<"host", "a">>>>
    /\ out.value[2].value = 912 /\ out.value[2].labels = <<<<"region", "eu">>>>

\* the record lacks the value column or holds a value float() does not take
Offending(record, value_column) ==
    \/ \A j \in 1..Len(record) : record[j][1] # value_column
    \/ FloatOf(DictGet(record, value_column)).raised # "none"

\* the error C13 states for an offending record
OffenceOf(record, value_column) ==
    IF \A j \in 1..Len(record) : record[j][1] # value_column
    THEN "MissingValueColumn" ELSE "InvalidValue"

\* C13: convert_data fails with the invalid-type error before any record is
\* looked at; with a valid type and some record that lacks the value column
\* or holds a value that is no float, it fails with the error of the first
\* such record (missing column or invalid value) and returns no samples.
C13_ErrorPrecedence ==
    op = "convert_data" =>
        /\ arg.metric_type \notin {"counter", "gauge", "histogram", "summary"}
              => (out.raised = "InvalidMetricType" /\ out.value = "")
        /\ (/\ arg.metric_type \in {"counter", "gauge", "histogram", "summary"}
            /\ \E k \in 1..Len(arg.data) : Offending(arg.data[k], arg.value_column))
              => LET first == CHOOSE k \in 1..Len(arg.data) :
                                 /\ Offending(arg.data[k], arg.value_column)
                                 /\ \A j \in 1..(k - 1) :
                                       ~Offending(arg.data[j], arg.value_column)
                 IN  /\ out.raised = OffenceOf(arg.data[first], arg.value_column)
                     /\ out.value = ""

\* the text has the shape of an RFC3339 timestamp: date, "T", time and a zone
IsRfc3339Text(s) ==
    /\ Len(s) >= 20
    /\ At(s, 5) = "-" /\ At(s, 8) = "-" /\ At(s, 11) = "T"
    /\ At(s, 14) = ":" /\ At(s, 17) = ":"
    /\ (At(s, Len(s)) = "Z" \/ At(s, Len(s) - 5) \in {"+", "-"})

\* the timestamp found is the one C14 states for what the record holds under
\* the timestamp column; for a text that is no RFC3339 timestamp nothing is
\* asked here
IsStatedTimestamp(timestamp, record, timestamp_column, e) ==
    IF timestamp_column = "" \/ \A j \in 1..Len(record) : record[j][1] # timestamp_column
    THEN timestamp = <<>>
    ELSE LET v == DictGet(record, timestamp_column) IN
         IF v.t \in {"int", "bool"} THEN timestamp = <<IntStr(v.n)>>
         ELSE IF v.t = "float" /\ v.s = ""
              THEN timestamp = <<IF v.n < 0 THEN IntStr(-((-v.n) \div 10))
                                 ELSE IntStr(v.n \div 10)>>
         ELSE IF v.t = "str"
              THEN IsRfc3339Text(v.s) =>
                      timestamp = <<IntMillisText(Timestamp(
                                        fromisoformat(Replace(v.s, "Z", "+00:00"), e.lenient), e))>>
         ELSE timestamp = <<>>

\* C14: whatever is found under the timestamp column, convert_data does not
\* fail for it and emits the sample of every record: with the value cut to
\* an int when it is a number, with the epoch milliseconds when it is an
\* RFC3339 text, and with no timestamp when it is absent, null, a number
\* that has no int, or of another type.
C14_TimestampNeverFails ==
    (/\ op = "convert_data"
     /\ arg.metric_type \in {"counter", "gauge", "histogram", "summary"}
     /\ \A k \in 1..Len(arg.data) : ~Offending(arg.data[k], arg.value_column))
        => /\ out.raised = "none"
           /\ Len(out.value) = Len(arg.data)
           /\ \A k \in 1..Len(arg.data) :
                 IsStatedTimestamp(out.value[k].timestamp, arg.data[k],
                                   arg.timestamp_column, env)

\* the text is a metric name: letters, digits and "_", no digit first
IsMetricName(s) ==
    /\ Len(s) > 0
    /\ \A i \in 1..Len(s) :
          \/ At(s, i) = "_"
          \/ IsDigit(At(s, i))
          \/ (Ord(At(s, i)) >= 65 /\ Ord(At(s, i)) <= 90)
          \/ (Ord(At(s, i)) >= 97 /\ Ord(At(s, i)) <= 122)
    /\ ~IsDigit(At(s, 1))

\* C15: every metric name that reaches the output, through convert_data and
\* format_metrics or through influx_to_prometheus as <measurement>_<field>,
\* is a non-empty text of letters, digits and "_" that starts with no digit.
C15_MetricNamesValid ==
    /\ (op = "convert" /\ out.raised = "none" /\ out.value # "")
          => IsMetricName(arg.metric_name)
    /\ (op = "influx_to_prometheus" /\ out.raised = "none" /\ out.value # "")
          => \A k \in 1..Len(parse_influxdb_csv(arg).value) :
                IsMetricName(parse_influxdb_csv(arg).value[k].measurement \o "_"
                             \o parse_influxdb_csv(arg).value[k].field)

\* C16: influx_to_promql returns a string and raises for no query and no forced
\* type; a forced type selects the translator of that type, whatever the
\* detection says of the query; with no forced type and a query of unknown
\* type the result is the error text that asks for the type.
C16_SoftFailure ==
    op = "influx_to_promql" =>
       /\ out.raised = "none"
       /\ out.value \in STRING
       /\ arg.force_type = "flux" => out.value = convert_flux_to_promql(arg.query)
       /\ arg.force_type = "influxql" => out.value = convert_influxql_to_promql(arg.query)
       /\ (arg.force_type = "" /\ detect_query_type(arg.query) = "unknown")
             => out.value = "Error: Could not determine query type. Please specify using --type"

\* a type is forced on a query that the detection takes for the other language
C16_Witness ==
    /\ op = "influx_to_promql"
    /\ out.raised = "none"
    /\ arg.force_type = "flux"
    /\ detect_query_type(arg.query) = "influxql"
    /\ out.value # convert_influxql_to_promql(arg.query)

\* relative durations that the range stages of the drawn queries hold
Durations == {"1h", "30m", "7d"}

\* the query holds the stage range(start: -D), with or without a stop
HasRelativeRange(query, D) ==
    \/ Contains(query, "range(start: -" \o D \o ")")
    \/ Contains(query, "range(start: -" \o D \o ", stop:")

\* the text holds the metric name, label filters or none, and the range token
ComposedAs(text, name, token) ==
    \/ Contains(text, name \o token)
    \/ \E i \in 1..Len(text) :
          /\ LitAt(text, i, name \o "{")
          /\ Find(text, "}" \o token, i) > 0
          /\ Find(text, "}" \o token, i) = Find(text, "}", i)

\* C17: for a Flux query that holds r._measurement == "M", r._field == "F" and
\* range(start: -D), convert_flux_to_promql returns a text that holds M_F and
\* [-D], composed as M_F, the label filters if any, then [-D].
C17_FluxMetricAndRange ==
    op = "convert_flux_to_promql" =>
       \A M \in Measurements, F \in Fields, D \in Durations :
          (/\ Contains(arg.query, FluxPred(<<"_measurement", M>>))
           /\ Contains(arg.query, FluxPred(<<"_field", F>>))
           /\ HasRelativeRange(arg.query, D))
             => /\ out.raised = "none"
                /\ ComposedAs(out.value, M \o "_" \o F, "[-" \o D \o "]")

\* C18: for a Flux query whose one filter call joins r._measurement == "M",
\* r._field == "F" and tag equalities by "and", convert_flux_to_promql returns
\* a text that holds M_F{ and every tag equality as a label filter.
C18_FluxTagsOfCombinedFilter ==
    op = "convert_flux_to_promql" =>
       \A M \in Measurements, F \in Fields, tags \in TagSeqs :
          (Len(tags) > 0
           /\ Contains(arg.query, FluxFilterCall(NamePairs(<<M>>, <<F>>) \o tags)))
             => /\ out.raised = "none"
                /\ Contains(out.value, M \o "_" \o F \o "{")
                /\ \A k \in 1..Len(tags) :
                      Contains(out.value, tags[k][1] \o "=\"" \o tags[k][2] \o "\"")

\* C19: for a Flux query that filters on r._measurement == "M" and on no
\* _field, convert_flux_to_promql and influx_to_promql with no forced type
\* return a text that holds M, and the range token of a relative range.
C19_FluxMeasurementOnly ==
    (op = "convert_flux_to_promql" \/ (op = "influx_to_promql" /\ arg.force_type = "")) =>
       \A M \in Measurements :
          (/\ Contains(arg.query, FluxPred(<<"_measurement", M>>))
           /\ ~Contains(arg.query, "_field"))
             => /\ out.raised = "none"
                /\ Contains(out.value, M)
                /\ \A D \in Durations :
                      HasRelativeRange(arg.query, D) => Contains(out.value, "[-" \o D \o "]")

\* the PromQL function of an InfluxQL function
PromqlFunctionOf(fn) == IF fn = "mean" THEN "avg" ELSE fn

\* C20: for SELECT "F" FROM "M", with or without a WHERE clause,
\* convert_influxql_to_promql returns a text that holds M_F without the quotes;
\* for SELECT fn("F") FROM "M" with fn of mean, sum, count, min, max it returns
\* a text that holds the PromQL function applied to M_F.
C20_InfluxqlMetricName ==
    op = "convert_influxql_to_promql" =>
       \A M \in Measurements, F \in Fields, where \in {"", " WHERE time >= now() - 1h"} :
          /\ arg.query = "SELECT \"" \o F \o "\" FROM \"" \o M \o "\"" \o where
                => (out.raised = "none" /\ Contains(out.value, M \o "_" \o F))
          /\ \A fn \in {"mean", "sum", "count", "min", "max"} :
                arg.query = "SELECT " \o fn \o "(\"" \o F \o "\") FROM \"" \o M \o "\"" \o where
                   => (out.raised = "none"
                       /\ Contains(out.value, PromqlFunctionOf(fn) \o "(" \o M \o "_" \o F))

\* the text behind the leading blanks of query starts with word, given in
\* small letters, in any letter case
TrimmedStartsWith(query, word) == LitAtCI(query, SkipWs(query, 1), word)

\* the pipe-forward token stands somewhere in query
HasPipeForward(query) ==
    \E i \in 1..(Len(query) - 1) : At(query, i) = "|" /\ At(query, i + 1) = ">"

\* C21: detect_query_type raises for no text and returns flux if the trimmed
\* query starts with from in any letter case or the query holds |> anywhere,
\* otherwise influxql if the trimmed query starts with SELECT in any letter
\* case, otherwise unknown; the flux rule is tried first.
C21_DetectQueryType ==
    op = "detect_query_type" =>
       /\ out.raised = "none"
       /\ out.value =
             IF TrimmedStartsWith(arg.query, "from") \/ HasPipeForward(arg.query) THEN "flux"
             ELSE IF TrimmedStartsWith(arg.query, "select") THEN "influxql"
             ELSE "unknown"

\* a query that starts with SELECT and holds |> is taken for flux
C21_Witness ==
    /\ op = "detect_query_type"
    /\ TrimmedStartsWith(arg.query, "select")
    /\ HasPipeForward(arg.query)
    /\ out = Returns("flux")

\* the row has a cell under each of the four reserved columns of header
CoversReserved(header, row) ==
    \A c \in ReservedColumns :
       \E i \in 1..Len(row) : i <= Len(header) /\ header[i] = c

\* the cell of row under the first column of header named name
CellUnder(header, row, name) ==
    row[CHOOSE i \in 1..Len(header) :
           header[i] = name /\ \A j \in 1..(i - 1) : header[j] # name]

\* C22: under a header with the four reserved columns, parse_influxdb_csv
\* skips without an error every data row that is empty or does not reach the
\* last of the reserved columns, and returns, in input order, a record for
\* exactly the rows below the header that reach all four; a kept row shorter
\* than the header has tags of its present cells only.
C22_ShortRowsSkipped ==
    (/\ op = "parse_influxdb_csv"
     /\ \E i \in 1..Len(arg) : IsContentRow(arg[i])
     /\ ReservedColumns \subseteq ColumnNames(arg[HeaderPosition(arg)]))
        => LET h      == HeaderPosition(arg)
               header == arg[h]
               kept   == SelectSeq(SubSeq(arg, h + 1, Len(arg)),
                                   LAMBDA r : CoversReserved(header, r))
           IN  /\ out.raised = "none"
               /\ Len(out.value) = Len(kept)
               /\ \A k \in 1..Len(kept) :
                     /\ out.value[k].timestamp = CellUnder(header, kept[k], "_time")
                     /\ out.value[k].measurement = CellUnder(header, kept[k], "_measurement")
                     /\ out.value[k].field = CellUnder(header, kept[k], "_field")
                     /\ out.value[k].value = CellUnder(header, kept[k], "_value")
                     /\ \A t \in Items(out.value[k].tags) :
                           \E i \in 1..Len(kept[k]) :
                              i <= Len(header) /\ header[i] = t[1] /\ kept[k][i] = t[2]

\* a row that does not reach the reserved columns was skipped, and a later
\* row shorter than the header that reaches them gave the one record
C22_Witness ==
    /\ op = "parse_influxdb_csv"
    /\ out.raised = "none"
    /\ Len(out.value) = 1
    /\ \E i \in 1..Len(arg) : IsContentRow(arg[i])
    /\ LET h == HeaderPosition(arg) IN
          /\ Len(arg) = h + 2
          /\ arg[h + 1] # <<>>
          /\ ~CoversReserved(arg[h], arg[h + 1])
          /\ CoversReserved(arg[h], arg[h + 2])
          /\ Len(arg[h + 2]) < Len(arg[h])

\* the positions of query at which a call of one of the six aggregations stands
AggregateCalls(query) ==
    {i \in 1..Len(query) : \E fn \in FluxAggregates : LitAt(query, i, fn \o "()")}

\* the aggregation called at position i of query
AggregateAt(query, i) == CHOOSE fn \in FluxAggregates : LitAt(query, i, fn \o "()")

\* the query up to its first aggregation call
BeforeAggregates(query) ==
    SubSeq(query, 1, (CHOOSE i \in AggregateCalls(query) :
                         \A j \in AggregateCalls(query) : i <= j) - 1)

\* the aggregation of the last aggregation call of query
TrailingAggregate(query) ==
    AggregateAt(query, CHOOSE i \in AggregateCalls(query) :
                          \A j \in AggregateCalls(query) : j <= i)

\* C23: for a Flux query with calls of mean(), sum(), count(), min(), max() or
\* stddev(), convert_flux_to_promql returns g(expr), expr being the translation
\* of the query without the aggregation calls and g the PromQL function (avg
\* for mean, else the same name) of the last such call; a query with no such
\* call is returned without a wrapping function.
C23_FluxTrailingAggregation ==
    op = "convert_flux_to_promql" =>
       /\ out.raised = "none"
       /\ IF AggregateCalls(arg.query) = {}
          THEN \A g \in {"avg", "sum", "count", "min", "max", "stddev"} :
                  ~StartsWith(out.value, g \o "(")
          ELSE out.value = PromqlFunctionOf(TrailingAggregate(arg.query)) \o "("
                              \o convert_flux_to_promql(BeforeAggregates(arg.query)) \o ")"

\* WHERE clauses with a relative time comparison, as <<clause, label filters
\* of its tag equalities, range token of its time comparison>>
RelativeWheres ==
    { <<" WHERE time >= now() - 1h", "", "[1h]">>,
      <<" WHERE time >= now() - 1h AND \"host\" = 'server01'", "{host=\"server01\"}", "[1h]">>,
      <<" WHERE time >= now() - 30m AND host = 'server01' AND region = 'eu'",
        "{host=\"server01\", region=\"eu\"}", "[30m]">> }

\* C24: for an InfluxQL query whose SELECT part is translated to the metric
\* name N and whose WHERE clause holds time >= now() - <amount><unit> and tag
\* equalities, convert_influxql_to_promql returns N, the tag equalities as
\* label filters in braces, then [<amount><unit>].
C24_InfluxqlFiltersAndRange ==
    op = "convert_influxql_to_promql" =>
       \A clause \in {"\"idle\"", "\"usage_user\""}, m \in {"\"cpu\"", "cpu"},
          where \in RelativeWheres :
          (/\ arg.query = "SELECT " \o clause \o " FROM " \o m \o where[1]
           /\ ~StartsWith(convert_influxql_to_promql("SELECT " \o clause \o " FROM " \o m),
                          "Error"))
             => /\ out.raised = "none"
                /\ out.value = convert_influxql_to_promql("SELECT " \o clause \o " FROM " \o m)
                                  \o where[2] \o where[3]

====
